---- MODULE Spec2Model ----
(***************************************************************************)
(* Verification model of the kohaku client-side engine: the generic sparse *)
(* Merkle tree (crates/crypto), the Shield-UTXO indexer (crates/railgun-rs)*)
(* and the Pool-Mix indexer (crates/tc-rs).                                *)
(*                                                                         *)
(* Rust vectors are 0-based; a vector v is the sequence whose element i+1  *)
(* is v[i].  The two-to-one hash (Poseidon / MiMC) is modelled as the      *)
(* collision-free pairing <<l, r>>.                                        *)
(***************************************************************************)
EXTENDS Integers, Sequences, FiniteSets, TLC

(* ----------------------------- bounds ---------------------------------- *)

\* Depth of every Merkle tree of the model (MerkleConfig::DEPTH is 16 for
\* Shield-UTXO, 20 for Pool-Mix and 4 in the unit tests).
TREE_DEPTH == 2

\* Largest leaf value handed to the stand-alone tree.
MaxLeaf == 2

\* Longest batch handed to insert_leaves_raw of the stand-alone tree.
MaxBatch == 2

\* Number of blocks the chain may grow to.
MaxBlocks == 2

\* Number of UTXO trees the chain may fill.
MaxTrees == 2

\* Number of signers that may be registered, and of registered accounts.
NumSigners == 2

MaxAccounts == 2

\* Number of syncs the verifier may fail between two resets.
MaxFailures == 1

\* Number of deposits a block of the Pool-Mix chain may hold.
MaxDeposits == 2

\* Latest instant of the clock await_commitments reads.
MaxTime == 3

\* await_commitments' poll_interval and its largest timeout.
PollInterval == 1

MaxTimeout == 2

\* Sync futures dropped in one run.
MaxCancels == 1

\* RpcSyncer.batch_size (10000 blocks) and SubsquidSyncer.batch_size (20000
\* entities), scaled.
RpcBatchSize == 1

SubsquidBatchSize == 2

\* Width of a note value (u128 in the code), scaled.
VALUE_BITS == 3

\* Notes an operation may spend, and may create counting the unshield (13 in
\* Operation::verify), scaled.
NOTE_LIMIT == 3

\* Unspent notes handed to build_operations, and transfers of one builder.
MaxNotes == 4

MaxTransfers == 3

\* Broadcasters that publish fees, and the latest expiration of a fee.
NumBroadcasters == 2

MaxExpiration == 2

\* Steps per percent in which a fee message states its reliability.
RELIABILITY_GRAIN == 2

\* max_backoff of BroadcasterManager::start (60 s, the first backoff being
\* 1 s), scaled.
MaxBackoff == 2

\* Relayers the Pool-Mix broadcaster indexer holds, and their largest stake.
MaxRelayers == 3

MaxStake == 1

\* Values rng.random::<f64>() takes: 0, 1/RNG_STEPS, ..., 1 - 1/RNG_STEPS.
RNG_STEPS == 4

\* Relayers of the provider that prepares a broadcast.
MaxPreparedRelayers == 2

\* The poll interval and the overall timeout of a relayer job, in seconds.
JOB_POLL_INTERVAL == 3

JOB_TIMEOUT == 120

\* Seconds a GET of the job status can take.
MaxLatency == 1

\* Bytes of the base37 encoding (16 in the source) and longest text encoded.
ENCODED_BYTES == 2

MaxTextLen == 4

\* Bytes of a note's nullifier and of its secret (31 each in the source).
NOTE_FIELD_BYTES == 1

\* Longest symbol and longest amount of a note.
MaxSymbolLen == 2

\* Operations the transaction syncer delivers to the TxID tree set.
MaxOps == 5

\* Operations registered with the pending POI submitter, and their TxIDs.
MaxRegistered == 3

NumTxids == 2

\* Broadcaster::new and Broadcaster::send: the overall timeout, the Store
\* poll interval, the resend interval and the sleep of the loop, in
\* milliseconds.
TIMEOUT_MS == 120000

RETRY_DELAY_MS == 5000

RESEND_INTERVAL_MS == 30000

SLEEP_MS == 250

\* The messages one drain or one historical answer holds at most.
MaxMessages == 2

\* The longest a historical retrieval takes, in sleeps of the loop.
MaxSlowSleeps == 1

\* SubsquidSyncer: the failures after which post_graphql gives up, and the
\* pause before the next attempt, in seconds.
MAX_RETRIES == 3

RETRY_DELAY == 1

\* The last page of a Subsquid stream whose fetch may fail.
MaxFailingPage == 2

\* The blocks of the chain the TxID indexer follows, and its sync_to calls
\* between two resets.
MaxTxidBlocks == 3

MaxTxidSyncs == 3

\* Blocks of the Pool-Mix chain behind the failing RPC, each with at most one
\* deposit: three, so that a batch between two others can fail.
MaxPoolBlocks == 3

\* RpcSyncer.batch_size of the modelled syncer (with_batch_size): one block
\* per get_logs call.
PoolBatchSize == 1

\* Entries registered with the submitter whose process is called repeatedly.
MaxFated == 3

\* Relayers of the Pool-Mix broadcaster indexer whose health is followed.
MaxHealthRelayers == 2

(* --------------------------- Merkle engine ------------------------------ *)

\* MerkleConfig::zero(): the zero leaf.
ZeroValue == 0

\* MerkleConfig::hash(left, right).
Hash(left, right) == <<left, right>>

\* MerkleTree::total_leaves(): 1 << DEPTH.
RECURSIVE Pow2(_)
Pow2(n) == IF n = 0 THEN 1 ELSE 2 * Pow2(n - 1)

TOTAL_LEAVES == Pow2(TREE_DEPTH)

\* zero_value_levels(): Z[0] = zero, Z[k+1] = H(Z[k], Z[k]).
RECURSIVE Zeros(_)
Zeros(level) ==
    IF level = 0 THEN ZeroValue ELSE Hash(Zeros(level - 1), Zeros(level - 1))

\* Vec::resize(len, fill): grows only.
Resize(v, len, fill) ==
    IF Len(v) < len THEN v \o [i \in 1..(len - Len(v)) |-> fill] ELSE v

\* MerkleTree::new(tree_number).
MerkleTree_new(tree_number) ==
    [number |-> tree_number,
     tree |-> [k \in 1..(TREE_DEPTH + 1) |->
                 IF k = TREE_DEPTH + 1
                 THEN <<Hash(Zeros(TREE_DEPTH - 1), Zeros(TREE_DEPTH - 1))>>
                 ELSE <<>>],
     dirty_parents |-> {}]

\* MerkleTree::leaves_len().
leaves_len(t) == Len(t.tree[1])

\* MerkleTree::root(): tree[DEPTH][0].
root(t) == t.tree[TREE_DEPTH + 1][1]

\* insert_leaves_raw that marks only the parent of the first written leaf.
insert_leaves_raw_FirstParentOnly(t, leaves, start_position) ==
    IF leaves = <<>> THEN t
    ELSE
      LET end_position == start_position + Len(leaves)
          resized == Resize(t.tree[1], end_position, Zeros(0))
          written == [i \in 1..Len(resized) |->
                        IF i - 1 >= start_position /\ i - 1 < end_position
                        THEN leaves[i - start_position]
                        ELSE resized[i]]
      IN [t EXCEPT !.tree[1] = written,
                   !.dirty_parents = @ \cup {start_position \div 2}]

\* MerkleTree::insert_leaves_raw(leaves, start_position).
insert_leaves_raw(t, leaves, start_position) ==
    IF leaves = <<>> THEN t
    ELSE
      LET end_position == start_position + Len(leaves)
          resized == Resize(t.tree[1], end_position, Zeros(0))
          written == [i \in 1..Len(resized) |->
                        IF i - 1 >= start_position /\ i - 1 < end_position
                        THEN leaves[i - start_position]
                        ELSE resized[i]]
      IN [t EXCEPT !.tree[1] = written,
                   !.dirty_parents =
                       @ \cup {(start_position + i - 1) \div 2 : i \in 1..Len(leaves)}]

\* One level of MerkleTree::rebuild: recompute the dirty parents of `level`.
RebuildLevel(tree, level, dirty) ==
    LET child == tree[level + 1]
        child_width == Len(child)
        parent_width == (child_width + 1) \div 2
        parents == Resize(tree[level + 2], parent_width, Zeros(level + 1))
        left(p) == IF 2 * p < child_width THEN child[2 * p + 1] ELSE Zeros(level)
        right(p) == IF 2 * p + 1 < child_width THEN child[2 * p + 2] ELSE Zeros(level)
    IN [tree EXCEPT ![level + 2] =
            [i \in 1..Len(parents) |->
                IF (i - 1) \in dirty THEN Hash(left(i - 1), right(i - 1))
                ELSE parents[i]]]

\* rebuild() that forgets to promote the dirty set to the next level.
RECURSIVE RebuildFrom_KeepsDirty(_, _, _)
RebuildFrom_KeepsDirty(tree, level, dirty) ==
    IF level = TREE_DEPTH THEN tree
    ELSE RebuildFrom_KeepsDirty(RebuildLevel(tree, level, dirty), level + 1, dirty)

\* The loop `for level in 0..DEPTH` of MerkleTree::rebuild.
RECURSIVE RebuildFrom(_, _, _)
RebuildFrom(tree, level, dirty) ==
    IF level = TREE_DEPTH THEN tree
    ELSE RebuildFrom(RebuildLevel(tree, level, dirty), level + 1,
                     {p \div 2 : p \in dirty})

\* MerkleTree::rebuild().
rebuild(t) ==
    IF t.dirty_parents = {} THEN t
    ELSE [t EXCEPT !.tree = RebuildFrom(t.tree, 0, t.dirty_parents),
                   !.dirty_parents = {}]

\* MerkleTree::insert_leaf(leaf, position): insert and rebuild.
insert_leaf(t, leaf, position) == rebuild(insert_leaves_raw(t, <<leaf>>, position))

\* MerkleProof::verify(): fold the siblings, bit i of `indices` choosing the side.
RECURSIVE VerifyFold(_, _, _, _)
VerifyFold(current_hash, elements, indices, i) ==
    IF i > Len(elements) THEN current_hash
    ELSE LET is_left_child == (indices \div Pow2(i - 1)) % 2 = 0
         IN VerifyFold(IF is_left_child THEN Hash(current_hash, elements[i])
                       ELSE Hash(elements[i], current_hash),
                       elements, indices, i + 1)

MerkleProof_verify(proof) ==
    VerifyFold(proof.element, proof.elements, proof.indices, 1) = proof.root

\* Iterator::position over tree[0]: the first index holding `element`, or -1.
Position(leaves, element) ==
    IF \E i \in 1..Len(leaves) : leaves[i] = element
    THEN (CHOOSE i \in 1..Len(leaves) :
              /\ leaves[i] = element
              /\ \A j \in 1..(i - 1) : leaves[j] # element) - 1
    ELSE -1

\* The sibling walk of MerkleTree::generate_proof.
Siblings(t, initial_index) ==
    [k \in 1..TREE_DEPTH |->
        LET level == k - 1
            index == initial_index \div Pow2(level)
            siblings_index == IF index % 2 = 0 THEN index + 1 ELSE index - 1
        IN IF siblings_index < Len(t.tree[level + 1])
           THEN t.tree[level + 1][siblings_index + 1]
           ELSE Zeros(level)]

\* MerkleTree::generate_proof(element) in a build without debug assertions.
generate_proof(t, element) ==
    LET initial_index == Position(t.tree[1], element)
    IN IF initial_index < 0
       THEN [status |-> "ElementNotFound", element |-> element]
       ELSE LET proof == [element |-> element,
                          elements |-> Siblings(t, initial_index),
                          indices |-> initial_index,
                          root |-> root(t)]
            IN IF MerkleProof_verify(proof)
               THEN [status |-> "Ok", element |-> element, proof |-> proof]
               ELSE [status |-> "InvalidProof", element |-> element]

(* --------------------- Shield-UTXO notes and accounts -------------------- *)

\* Finite maps (BTreeMap): functions with a finite domain.
EmptyMap == [k \in {} |-> 0]

Put(f, k, v) == [x \in DOMAIN f \cup {k} |-> IF x = k THEN v ELSE f[x]]

Remove(f, k) == [x \in DOMAIN f \ {k} |-> f[x]]

MinOf(S) == CHOOSE x \in S : \A y \in S : x <= y

\* poseidon_hash(&[npk, token_id, value]): the commitment of a note, injective
\* on the notes of the model.
PoseidonLeaf(npk, token_id, value) == npk * 100 + token_id * 10 + value

\* UtxoNote::nullifier(leaf_index): poseidon_hash(&[nullifying_key, leaf_index]).
\* The nullifying key of a signer is the signer's number.
Nullifier(nullifying_key, leaf_index) == <<nullifying_key, leaf_index>>

\* Notebook::add(note_position, note).
Notebook_add(notebook, note_position, note) ==
    [notebook EXCEPT !.unspent = Put(@, note_position, note)]

\* Notebook::nullify(nullifier, _): the first unspent note (in key order) whose
\* nullifier at its own leaf index is `nullifier` moves to spent.
Notebook_nullify(notebook, nullifier) ==
    LET hits == {leaf_index \in DOMAIN notebook.unspent :
                    Nullifier(notebook.unspent[leaf_index].signer, leaf_index) = nullifier}
    IN IF hits = {} THEN [notebook |-> notebook, spent |-> FALSE]
       ELSE LET leaf_index == MinOf(hits)
            IN [notebook |->
                    [unspent |-> Remove(notebook.unspent, leaf_index),
                     spent |-> Put(notebook.spent, leaf_index,
                                   notebook.unspent[leaf_index])],
                spent |-> TRUE]

\* Notebook::default().
Notebook_new == [unspent |-> EmptyMap, spent |-> EmptyMap]

\* IndexedAccount::new(signer).
IndexedAccount_new(signer) == [signer |-> signer, notebooks |-> EmptyMap]

\* notebooks.entry(tree_number).or_default().
NotebookOf(account, tree_number) ==
    IF tree_number \in DOMAIN account.notebooks
    THEN account.notebooks[tree_number] ELSE Notebook_new

\* IndexedAccount::unspent(): the unspent notes of all notebooks.
unspent(account) ==
    UNION {{account.notebooks[t].unspent[i] : i \in DOMAIN account.notebooks[t].unspent} :
              t \in DOMAIN account.notebooks}

\* A note position that is never carried over to the next tree.
NotePosition_NoCarry(tree_number, start_position, index) ==
    [tree |-> tree_number, leaf |-> start_position + index]

\* The (tree, leaf) an account gives to the note at offset `index` of an event,
\* in handle_shield_event and handle_transact_event.
NotePosition(tree_number, start_position, index) ==
    IF start_position + index >= TOTAL_LEAVES
    THEN [tree |-> tree_number + 1, leaf |-> start_position + index - TOTAL_LEAVES]
    ELSE [tree |-> tree_number, leaf |-> start_position + index]

\* The loop over the ciphertexts of an event: a note decrypts for the account's
\* signer only; the others fail with NoteError::Aes and are skipped.
RECURSIVE DecryptNotes(_, _, _, _, _)
DecryptNotes(account, event, kind, index, added) ==
    IF index >= Len(event.notes) THEN [account |-> account, added |-> added]
    ELSE
      LET c == event.notes[index + 1]
          pos == NotePosition(event.treeNumber, event.startPosition, index)
          note == [tree_number |-> pos.tree, leaf_index |-> pos.leaf,
                   signer |-> account.signer, npk |-> c.npk, asset |-> c.asset,
                   value |-> c.value, kind |-> kind]
      IN IF c.owner # account.signer
         THEN DecryptNotes(account, event, kind, index + 1, added)
         ELSE DecryptNotes(
                  [account EXCEPT !.notebooks =
                      Put(@, pos.tree,
                          Notebook_add(NotebookOf(account, pos.tree), pos.leaf, note))],
                  event, kind, index + 1, TRUE)

\* IndexedAccount::handle_shield_event(event).
handle_shield_event(account, event) == DecryptNotes(account, event, "shield", 0, FALSE)

\* IndexedAccount::handle_transact_event(event).
handle_transact_event(account, event) ==
    DecryptNotes(account, event, "transact", 0, FALSE)

\* IndexedAccount::handle_nullified_event(event, timestamp).
RECURSIVE handle_nullified_from(_, _, _, _)
handle_nullified_from(account, event, i, matched) ==
    IF i > Len(event.nullifier) THEN [account |-> account, added |-> matched]
    ELSE LET r == Notebook_nullify(NotebookOf(account, event.treeNumber),
                                   event.nullifier[i])
         IN handle_nullified_from(
                [account EXCEPT !.notebooks = Put(@, event.treeNumber, r.notebook)],
                event, i + 1, matched \/ r.spent)

handle_nullified_event(account, event) == handle_nullified_from(account, event, 1, FALSE)

\* IndexedAccount::balance(): asset -> sum of the unspent values.
RECURSIVE SumValues(_)
SumValues(notes) ==
    IF notes = {} THEN 0
    ELSE LET n == CHOOSE x \in notes : TRUE
         IN n.value + SumValues(notes \ {n})

balance(account) ==
    LET held == unspent(account)
    IN [a \in {n.asset : n \in held} |-> SumValues({n \in held : n.asset = a})]

(* --------------------------- Shield-UTXO indexer ------------------------- *)

\* insert_utxo_leaves: fill the current tree, carry the rest to the next one.
RECURSIVE InsertLoop(_, _, _, _)
InsertLoop(trees, current_tree, position, remaining) ==
    IF remaining = <<>> THEN trees
    ELSE
      LET space_in_tree == TOTAL_LEAVES - position
          to_insert == IF Len(remaining) < space_in_tree THEN Len(remaining)
                       ELSE space_in_tree
          tree == IF current_tree \in DOMAIN trees THEN trees[current_tree]
                  ELSE MerkleTree_new(current_tree)
      IN InsertLoop(
             Put(trees, current_tree,
                 insert_leaves_raw(tree, SubSeq(remaining, 1, to_insert), position)),
             current_tree + 1, 0,
             SubSeq(remaining, to_insert + 1, Len(remaining)))

insert_utxo_leaves(trees, tree_number, start_position, leaves) ==
    InsertLoop(trees, tree_number + (start_position \div TOTAL_LEAVES),
               start_position % TOTAL_LEAVES, leaves)

\* account.handle_shield_event / handle_transact_event / handle_nullified_event,
\* as the handler of the event's kind calls it.
AccountHandleEvent(account, event) ==
    CASE event.kind = "Shield" -> handle_shield_event(account, event)
      [] event.kind = "Transact" -> handle_transact_event(account, event)
      [] event.kind = "Nullified" -> handle_nullified_event(account, event)

\* The loop `for account in self.accounts.iter_mut()` of the event handlers.
ForAccounts(ix, trees, seen, event) ==
    LET r == [i \in 1..Len(ix.accounts) |-> AccountHandleEvent(ix.accounts[i], event)]
    IN [utxo_trees |-> trees,
        accounts |-> [i \in 1..Len(ix.accounts) |-> r[i].account],
        seen_commitments |-> seen,
        matched |-> \E i \in 1..Len(ix.accounts) : r[i].added]

\* UtxoIndexer::handle_shield(event).
handle_shield(ix, event) ==
    LET leaves == [i \in 1..Len(event.notes) |->
                      PoseidonLeaf(event.notes[i].npk, event.notes[i].asset,
                                   event.notes[i].value)]
    IN ForAccounts(ix,
                   insert_utxo_leaves(ix.utxo_trees, event.treeNumber,
                                      event.startPosition, leaves),
                   ix.seen_commitments, event)

\* UtxoIndexer::handle_transact(event).
handle_transact(ix, event) ==
    ForAccounts(ix,
                insert_utxo_leaves(ix.utxo_trees, event.treeNumber,
                                   event.startPosition, event.hash),
                ix.seen_commitments \cup {event.hash[i] : i \in 1..Len(event.hash)},
                event)

\* UtxoIndexer::handle_nullified(event, timestamp).
handle_nullified(ix, event) ==
    ForAccounts(ix, ix.utxo_trees, ix.seen_commitments, event)

\* A handle_legacy that reports the event as matched.
handle_legacy_Matched(ix, event) ==
    [utxo_trees |-> insert_utxo_leaves(ix.utxo_trees, event.treeNumber,
                                       event.startPosition, event.hash),
     accounts |-> ix.accounts,
     seen_commitments |-> ix.seen_commitments,
     matched |-> TRUE]

\* UtxoIndexer::handle_legacy(event): the leaf is inserted, no account is asked.
handle_legacy(ix, event) ==
    [utxo_trees |-> insert_utxo_leaves(ix.utxo_trees, event.treeNumber,
                                       event.startPosition, event.hash),
     accounts |-> ix.accounts,
     seen_commitments |-> ix.seen_commitments,
     matched |-> FALSE]

\* UtxoIndexer::handle_event(event).
handle_event(ix, event) ==
    CASE event.kind = "Shield" -> handle_shield(ix, event)
      [] event.kind = "Transact" -> handle_transact(ix, event)
      [] event.kind = "Nullified" -> handle_nullified(ix, event)
      [] event.kind = "Legacy" -> handle_legacy(ix, event)

\* A replay that handles the logged events last to first.
RECURSIVE Replay_Backwards(_, _, _)
Replay_Backwards(ix, events, i) ==
    IF i > Len(events) THEN ix
    ELSE handle_event(Replay_Backwards(ix, events, i + 1), events[i])

\* The replay loop of UtxoIndexer::register: every logged event is handled
\* again, by every account, and its result is dropped.
RECURSIVE Replay(_, _, _)
Replay(ix, events, i) ==
    IF i > Len(events) THEN ix
    ELSE Replay(handle_event(ix, events[i]), events, i + 1)

\* The loop `for tree in self.utxo_trees.values_mut() { tree.rebuild() }`.
RebuildAll(trees) == [t \in DOMAIN trees |-> rebuild(trees[t])]

\* UtxoMerkleTree::verify(): an empty tree is accepted unasked; otherwise the
\* verifier's answer for the tree decides.
UtxoMerkleTree_verify(t, answer) ==
    IF leaves_len(t) = 0 THEN "Ok"
    ELSE CASE answer = "valid" -> "Ok"
           [] answer = "invalid" -> "InvalidRoot"
           [] answer = "error" -> "VerifierError"

\* UtxoIndexer::verify(): the trees in key order, stopping at the first error.
UtxoIndexer_verify(trees, answers) ==
    LET failing == {t \in DOMAIN trees : UtxoMerkleTree_verify(trees[t], answers[t]) # "Ok"}
    IN IF failing = {} THEN [status |-> "Ok", accepted |-> DOMAIN trees]
       ELSE LET first == MinOf(failing)
            IN [status |-> UtxoMerkleTree_verify(trees[first], answers[first]),
                accepted |-> {t \in DOMAIN trees : t < first}]

\* MerkleTree::state() and MerkleTree::from_state(): the snapshot holds the
\* number and the levels; the restored tree starts with no dirty parents.
MerkleTree_state(t) == [number |-> t.number, tree |-> t.tree]

MerkleTree_from_state(state) ==
    [MerkleTree_new(state.number) EXCEPT !.tree = state.tree]

(* ------------------------------ state ----------------------------------- *)

VARIABLES
    mt,            \* a stand-alone MerkleTree<C>
    mt_inserted,   \* history: every value ever passed to an insert of mt
    proof_result   \* what the last generate_proof call on mt returned

VARIABLES
    chain,            \* environment: chain[b] is the event of block b
    utxo_trees,       \* UtxoIndexer.utxo_trees: tree number -> UtxoMerkleTree
    synced_block,     \* UtxoIndexer.synced_block
    accounts,         \* UtxoIndexer.accounts
    matched_events,   \* UtxoIndexer.matched_events
    seen_commitments, \* UtxoIndexer.seen_commitments
    task,             \* the call in flight on the indexer and its locals
    result,           \* what the call that has just returned handed to its caller
    failures          \* history: syncs the verifier has failed since new() or reset()

VARIABLES
    tc_chain,         \* environment: tc_chain[b] is the deposits of block b
    tc_tree,          \* Indexer.tree of the Pool-Mix indexer
    tc_synced_block,  \* Indexer.synced_block of the Pool-Mix indexer
    tc_result         \* what the Pool-Mix call that has just returned handed back

VARIABLES
    waiter,           \* the await_commitments call on the indexer and its locals
    now               \* web_time::Instant::now()

VARIABLES
    bc                \* the PoiProvider::broadcast call and its two futures

VARIABLES
    probe             \* history: the sync in flight or dropped, and where it started

VARIABLES
    delivered         \* what the last NoteSyncer::sync call streamed to its caller

VARIABLES
    built             \* the last build_operations call: its inputs and its outcome

VARIABLES
    broadcasters,             \* BroadcasterManager.broadcasters
    whitelisted_broadcasters, \* BroadcasterManager.whitelisted_broadcasters
    starter,                  \* the BroadcasterManager::start call and its locals
    mgr_result                \* what the manager call that has just returned handed back

VARIABLES
    tc_relayers,      \* BroadcasterIndexer.relayers of the Pool-Mix broadcaster
    picked            \* the last pick_relayer call: its arguments and what it returned

VARIABLES
    prepared          \* the prepare_broadcast call of the Pool-Mix provider and its locals

VARIABLES
    job               \* the await_withdraw call of the Pool-Mix provider and its locals

VARIABLES
    snap              \* a stand-alone tree, its snapshot and the tree restored from it

VARIABLES
    codec             \* a text, its base37 encoding and the text decoded from it

VARIABLES
    notestr           \* a Pool-Mix note, its string and the note parsed from it

VARIABLES
    sender            \* the Broadcaster::send call in flight and its locals

VARIABLES
    gql               \* the SubsquidSyncer::post_graphql call in flight and its locals

VARIABLES
    fetcher           \* a UtxoIndexer over a syncer whose fetches may fail

VARIABLES
    txix              \* TxidIndexer: synced_block, its TxidTreeSet, and the chain it follows

VARIABLES
    resub             \* a PendingPoiSubmitter whose process is called again and again

VARIABLES
    hc                \* a Pool-Mix BroadcasterIndexer: its relayers with their health flags

VARIABLES
    pp                \* the Pool-Mix PoolProvider's indexer over an RPC whose batches may fail

VARIABLES
    txid_set,         \* TxidTreeSet: trees, pending, the position maps, validated_index
    txid_result,      \* what the last update() returned and what it did
    txid_log,         \* history: operations enqueued, roots the aggregator accepted
    agg_validated     \* environment: operations the aggregator has validated

VARIABLES
    poi_pending,      \* PendingPoiSubmitter.pending
    poi_known,        \* environment: the positions the TxID indexer has of each TxID
    poi_result,       \* what the last process call returned, and what it was given
    poi_log           \* history: entries registered, entries process removed

treeVars == <<mt, mt_inserted, proof_result>>

indexerVars ==
    <<chain, utxo_trees, synced_block, accounts, matched_events, seen_commitments,
      task, result, failures>>

tcVars == <<tc_chain, tc_tree, tc_synced_block, tc_result>>

awaitVars == <<waiter, now>>

syncerVars == <<delivered>>

broadcastVars == <<bc>>

cancelVars == <<probe>>

builderVars == <<built>>

\* The wallet-side components: they read no indexer and no chain.
managerVars == <<broadcasters, whitelisted_broadcasters, starter, mgr_result>>

relayerVars == <<tc_relayers, picked>>

prepareVars == <<prepared>>

walletVars == <<builderVars, managerVars, relayerVars, prepareVars>>

jobVars == <<job>>

snapshotVars == <<snap>>

codecVars == <<codec>>

noteStringVars == <<notestr>>

txidVars == <<txid_set, txid_result, txid_log, agg_validated>>

submitterVars == <<poi_pending, poi_known, poi_result, poi_log>>

sendVars == <<sender>>

graphqlVars == <<gql>>

fetchVars == <<fetcher>>

txidIndexerVars == <<txix>>

poolVars == <<pp>>

retryVars == <<resub>>

healthVars == <<hc>>

\* The relayer job, the codecs, the TxID trees, the POI submitter and the
\* broadcaster request.
serviceVars ==
    <<jobVars, snapshotVars, codecVars, noteStringVars, txidVars, submitterVars,
      sendVars, graphqlVars, fetchVars, txidIndexerVars, poolVars, retryVars,
      healthVars>>

\* The components that do not share the Shield-UTXO indexer.
apartVars == <<treeVars, tcVars, syncerVars>>

\* The trees, the indexers and their callers.
engineVars ==
    <<treeVars, indexerVars, tcVars, awaitVars, syncerVars, broadcastVars, cancelVars>>

vars == <<engineVars, walletVars, serviceVars>>

\* What the actions of one component leave alone: the other components.
OutsideTree ==
    <<indexerVars, tcVars, awaitVars, syncerVars, broadcastVars, cancelVars, walletVars,
      serviceVars>>

OutsideIndexer ==
    <<apartVars, awaitVars, broadcastVars, cancelVars, walletVars, serviceVars>>

OutsideTc ==
    <<treeVars, indexerVars, awaitVars, syncerVars, broadcastVars, cancelVars, walletVars,
      serviceVars>>

OutsideAwait == <<apartVars, broadcastVars, cancelVars, walletVars, serviceVars>>

OutsideSyncer ==
    <<treeVars, tcVars, awaitVars, broadcastVars, cancelVars, walletVars, serviceVars>>

OutsideBroadcast == <<apartVars, cancelVars, walletVars, serviceVars>>

OutsideCancel == <<apartVars, awaitVars, broadcastVars, walletVars, serviceVars>>

OutsideBuilder == <<engineVars, managerVars, relayerVars, prepareVars, serviceVars>>

OutsideManager == <<engineVars, builderVars, relayerVars, prepareVars, serviceVars>>

OutsideRelayer == <<engineVars, builderVars, managerVars, prepareVars, serviceVars>>

OutsideJob ==
    <<engineVars, walletVars, snapshotVars, codecVars, noteStringVars, txidVars,
      submitterVars, sendVars, graphqlVars, fetchVars, txidIndexerVars, poolVars,
      retryVars, healthVars>>

OutsideSnapshot ==
    <<engineVars, walletVars, jobVars, codecVars, noteStringVars, txidVars,
      submitterVars, sendVars, graphqlVars, fetchVars, txidIndexerVars, poolVars,
      retryVars, healthVars>>

OutsideCodec ==
    <<engineVars, walletVars, jobVars, snapshotVars, noteStringVars, txidVars,
      submitterVars, sendVars, graphqlVars, fetchVars, txidIndexerVars, poolVars,
      retryVars, healthVars>>

OutsideNoteString ==
    <<engineVars, walletVars, jobVars, snapshotVars, codecVars, txidVars,
      submitterVars, sendVars, graphqlVars, fetchVars, txidIndexerVars, poolVars,
      retryVars, healthVars>>

OutsideTxid ==
    <<engineVars, walletVars, jobVars, snapshotVars, codecVars, noteStringVars,
      submitterVars, sendVars, graphqlVars, fetchVars, txidIndexerVars, poolVars,
      retryVars, healthVars>>

OutsideSubmitter ==
    <<engineVars, walletVars, jobVars, snapshotVars, codecVars, noteStringVars,
      txidVars, sendVars, graphqlVars, fetchVars, txidIndexerVars, poolVars, retryVars,
      healthVars>>

OutsideSend ==
    <<engineVars, walletVars, jobVars, snapshotVars, codecVars, noteStringVars,
      txidVars, submitterVars, graphqlVars, fetchVars, txidIndexerVars, poolVars,
      retryVars, healthVars>>

OutsideGraphql ==
    <<engineVars, walletVars, jobVars, snapshotVars, codecVars, noteStringVars,
      txidVars, submitterVars, sendVars, fetchVars, txidIndexerVars, poolVars,
      retryVars, healthVars>>

OutsideFetch ==
    <<engineVars, walletVars, jobVars, snapshotVars, codecVars, noteStringVars,
      txidVars, submitterVars, sendVars, graphqlVars, txidIndexerVars, poolVars,
      retryVars, healthVars>>

OutsideTxidIndexer ==
    <<engineVars, walletVars, jobVars, snapshotVars, codecVars, noteStringVars,
      txidVars, submitterVars, sendVars, graphqlVars, fetchVars, poolVars, retryVars,
      healthVars>>

OutsidePool ==
    <<engineVars, walletVars, jobVars, snapshotVars, codecVars, noteStringVars,
      txidVars, submitterVars, sendVars, graphqlVars, fetchVars, txidIndexerVars,
      retryVars, healthVars>>

OutsideRetry ==
    <<engineVars, walletVars, jobVars, snapshotVars, codecVars, noteStringVars,
      txidVars, submitterVars, sendVars, graphqlVars, fetchVars, txidIndexerVars,
      poolVars, healthVars>>

OutsideHealth ==
    <<engineVars, walletVars, jobVars, snapshotVars, codecVars, noteStringVars,
      txidVars, submitterVars, sendVars, graphqlVars, fetchVars, txidIndexerVars,
      poolVars, retryVars>>

\* prepare_broadcast reads the relayers of the broadcaster indexer.
OutsidePrepare == <<engineVars, builderVars, managerVars, serviceVars>>

NoResult == [status |-> "None"]

\* No call is in flight on the indexer.
Idle == [pc |-> "idle"]

\* `result` holds what a sync_to or register_resync call has just returned to
\* its caller; it is NoSyncResult once anything else has happened.
NoSyncResult == [op |-> "none", status |-> "None", accepted |-> {}]

\* Leaves and batches handed to the stand-alone tree.
LeafValues == 1..MaxLeaf

LeafBatches ==
    UNION {[1..n -> LeafValues] : n \in 1..MaxBatch}

\* Values generate_proof is asked about: the leaves and the zero value.
ProbeValues == LeafValues \cup {ZeroValue}

TreeInit ==
    /\ mt = MerkleTree_new(0)
    /\ mt_inserted = {}
    /\ proof_result = NoResult

\* tree.insert_leaves_raw(leaves, start) within the tree's capacity.
TreeInsertLeavesRaw(leaves, start) ==
    /\ start + Len(leaves) <= TOTAL_LEAVES
    /\ mt' = insert_leaves_raw(mt, leaves, start)
    /\ mt_inserted' = mt_inserted \cup {leaves[i] : i \in 1..Len(leaves)}
    /\ proof_result' = NoResult
    /\ UNCHANGED OutsideTree

\* tree.insert_leaf(leaf, position).
TreeInsertLeaf(leaf, position) ==
    /\ mt' = insert_leaf(mt, leaf, position)
    /\ mt_inserted' = mt_inserted \cup {leaf}
    /\ proof_result' = NoResult
    /\ UNCHANGED OutsideTree

\* tree.rebuild().
TreeRebuild ==
    /\ mt.dirty_parents # {}
    /\ mt' = rebuild(mt)
    /\ proof_result' = NoResult
    /\ UNCHANGED mt_inserted
    /\ UNCHANGED OutsideTree

\* tree.generate_proof(element).  With dirty parents a debug build panics on
\* the debug_assert; a release build warns and goes on.
TreeGenerateProof(element) ==
    /\ \/ proof_result' = generate_proof(mt, element)
       \/ /\ mt.dirty_parents # {}
          /\ proof_result' = [status |-> "Panic", element |-> element]
    /\ UNCHANGED <<mt, mt_inserted>>
    /\ UNCHANGED OutsideTree

TreeNext ==
    \/ \E leaves \in LeafBatches, start \in 0..(TOTAL_LEAVES - 1) :
           TreeInsertLeavesRaw(leaves, start)
    \/ \E leaf \in LeafValues, position \in 0..(TOTAL_LEAVES - 1) :
           TreeInsertLeaf(leaf, position)
    \/ TreeRebuild
    \/ \E element \in ProbeValues : TreeGenerateProof(element)


(* ------------------------ Shield-UTXO environment ------------------------ *)

Signers == 1..NumSigners

\* The notes a Shield or Transact event of the model may carry: owner, asset
\* and value of each (npk is given by the chain).
NoteBatches ==
    { <<[owner |-> 1, asset |-> 1, value |-> 1]>>,
      <<[owner |-> 2, asset |-> 1, value |-> 2]>>,
      <<[owner |-> 1, asset |-> 1, value |-> 2], [owner |-> 2, asset |-> 2, value |-> 1],
        [owner |-> 1, asset |-> 2, value |-> 1]>> }

\* Number of leaves an event adds to the commitment trees.
LeafCount(event) ==
    IF event.kind = "Shield" \/ event.kind = "Transact" THEN Len(event.notes)
    ELSE IF event.kind = "Legacy" THEN 1 ELSE 0

\* The global position (tree * 2^D + index) after the last leaf on chain.
RECURSIVE NextGlobal(_, _)
NextGlobal(events, i) ==
    IF i = 0 THEN 0
    ELSE IF LeafCount(events[i]) > 0
         THEN events[i].treeNumber * TOTAL_LEAVES + events[i].startPosition
                  + LeafCount(events[i])
         ELSE NextGlobal(events, i - 1)

\* The notes on chain, each with the nullifier that spends it and its tree.
ChainNotes(events) ==
    UNION {{[tree |-> (e.treeNumber * TOTAL_LEAVES + e.startPosition + i - 1)
                         \div TOTAL_LEAVES,
             nullifier |-> Nullifier(e.notes[i].owner,
                                     (e.treeNumber * TOTAL_LEAVES + e.startPosition + i - 1)
                                         % TOTAL_LEAVES)] : i \in 1..Len(e.notes)} :
              e \in {events[b] : b \in 1..Len(events)}}

\* The notes on chain that no Nullified event has spent.
ChainUnspent(events) ==
    {n \in ChainNotes(events) :
        \A b \in 1..Len(events) :
            ~(/\ events[b].kind = "Nullified"
              /\ events[b].treeNumber = n.tree
              /\ \E i \in 1..Len(events[b].nullifier) :
                     events[b].nullifier[i] = n.nullifier)}

\* A Shield or Transact event of the next block, placed by the contract at
\* (tree, start): right after the last leaf, or at the start of the next tree
\* when the batch does not fit.
NoteEvent(kind, batch, tree, start) ==
    LET notes == [i \in 1..Len(batch) |->
                     [owner |-> batch[i].owner, asset |-> batch[i].asset,
                      value |-> batch[i].value,
                      npk |-> tree * TOTAL_LEAVES + start + i]]
    IN [kind |-> kind, block |-> Len(chain) + 1,
        treeNumber |-> tree, startPosition |-> start, notes |-> notes,
        hash |-> IF kind = "Transact"
                 THEN [i \in 1..Len(notes) |->
                          PoseidonLeaf(notes[i].npk, notes[i].asset, notes[i].value)]
                 ELSE <<>>,
        nullifier |-> <<>>]

MineNotes(kind, batch, skip) ==
    LET next == NextGlobal(chain, Len(chain))
        fits == (next % TOTAL_LEAVES) + Len(batch) <= TOTAL_LEAVES
        at == IF skip THEN ((next \div TOTAL_LEAVES) + 1) * TOTAL_LEAVES ELSE next
    IN /\ Len(chain) < MaxBlocks
       /\ skip => ~fits
       /\ at + Len(batch) <= MaxTrees * TOTAL_LEAVES
       /\ chain' = Append(chain, NoteEvent(kind, batch, at \div TOTAL_LEAVES,
                                           at % TOTAL_LEAVES))

\* A legacy commitment: one leaf, known by hash and position only.
MineLegacy ==
    LET next == NextGlobal(chain, Len(chain))
    IN /\ Len(chain) < MaxBlocks
       /\ next + 1 <= MaxTrees * TOTAL_LEAVES
       /\ chain' = Append(chain,
              [kind |-> "Legacy", block |-> Len(chain) + 1,
               treeNumber |-> next \div TOTAL_LEAVES,
               startPosition |-> next % TOTAL_LEAVES,
               notes |-> <<>>, hash |-> <<PoseidonLeaf(next + 1, 0, 0)>>,
               nullifier |-> <<>>])

\* A Nullified event: a transaction spending one or two unspent notes of one
\* owner in one tree.
MineNullified(spent) ==
    /\ Len(chain) < MaxBlocks
    /\ spent # {} /\ Cardinality(spent) <= 2
    /\ \A n, m \in spent : n.tree = m.tree /\ n.nullifier[1] = m.nullifier[1]
    /\ LET first == CHOOSE n \in spent : \A m \in spent : n.nullifier[2] <= m.nullifier[2]
           rest == spent \ {first}
       IN chain' = Append(chain,
              [kind |-> "Nullified", block |-> Len(chain) + 1,
               treeNumber |-> first.tree, startPosition |-> 0,
               notes |-> <<>>, hash |-> <<>>,
               nullifier |-> IF rest = {} THEN <<first.nullifier>>
                             ELSE <<first.nullifier,
                                    (CHOOSE n \in rest : TRUE).nullifier>>])

\* The chain grows by one block.  The indexer reads the chain only at the
\* start of a sync (latest_block, then the range up to it), so the blocks
\* mined during a call are modelled as mined right after it.
MineBlock ==
    /\ task.pc = "idle"
    /\ \/ \E kind \in {"Shield", "Transact"}, batch \in NoteBatches, skip \in BOOLEAN :
              MineNotes(kind, batch, skip)
       \/ MineLegacy
       \/ \E spent \in SUBSET ChainUnspent(chain) : MineNullified(spent)
    /\ result' = NoSyncResult
    /\ UNCHANGED <<utxo_trees, synced_block, accounts, matched_events,
                   seen_commitments, task, failures>>
    /\ UNCHANGED OutsideIndexer

(* -------------------------- Shield-UTXO actions -------------------------- *)

\* The indexer's fields the event handlers read and write.
Ix ==
    [utxo_trees |-> utxo_trees, accounts |-> accounts,
     seen_commitments |-> seen_commitments]

\* UtxoIndexer::new(syncer, verifier).
IndexerInit ==
    /\ chain = <<>>
    /\ utxo_trees = EmptyMap
    /\ synced_block = 0
    /\ accounts = <<>>
    /\ matched_events = <<>>
    /\ seen_commitments = {}
    /\ task = Idle
    /\ result = NoSyncResult
    /\ failures = 0

\* sync_to(to_block) up to the stream: the range is computed from synced_block
\* and the syncer's latest block; an empty range returns at once.
SyncTo(to_block) ==
    /\ task.pc = "idle"
    /\ LET from_block == synced_block + 1
           latest_block == Len(chain)
           to == IF to_block < latest_block THEN to_block ELSE latest_block
       IN IF from_block > to
          THEN /\ result' = [op |-> "sync_to", status |-> "Ok", accepted |-> {}]
               /\ UNCHANGED task
          ELSE /\ task' = [pc |-> "sync_to", from_block |-> from_block,
                           to_block |-> to, stream |-> SubSeq(chain, from_block, to)]
               /\ result' = NoSyncResult
    /\ UNCHANGED <<chain, utxo_trees, synced_block, accounts, matched_events,
                   seen_commitments, failures>>
    /\ UNCHANGED OutsideIndexer

\* sync_to when latest_block() or sync() fails.
SyncToSyncerError ==
    /\ task.pc = "idle"
    /\ result' = [op |-> "sync_to", status |-> "SyncerError", accepted |-> {}]
    /\ UNCHANGED <<chain, utxo_trees, synced_block, accounts, matched_events,
                   seen_commitments, task, failures>>
    /\ UNCHANGED OutsideIndexer

\* One turn of `while let Some(event) = stream.next().await`.
SyncNextEvent ==
    /\ task.pc = "sync_to"
    /\ task.stream # <<>>
    /\ LET event == Head(task.stream)
           r == handle_event(Ix, event)
       IN /\ utxo_trees' = r.utxo_trees
          /\ accounts' = r.accounts
          /\ seen_commitments' = r.seen_commitments
          /\ matched_events' = IF r.matched THEN Append(matched_events, event)
                               ELSE matched_events
    /\ task' = [task EXCEPT !.stream = Tail(@)]
    /\ result' = NoSyncResult
    /\ UNCHANGED <<chain, synced_block, failures>>
    /\ UNCHANGED OutsideIndexer

\* A sync_to that advances synced_block whatever the verifier answers.
SyncFinish_AdvancesOnMismatch(answers) ==
    /\ task.pc = "sync_to"
    /\ task.stream = <<>>
    /\ LET rebuilt == RebuildAll(utxo_trees)
           v == UtxoIndexer_verify(rebuilt, answers)
       IN /\ utxo_trees' = rebuilt
          /\ result' = [op |-> "sync_to",
                        status |-> IF v.status = "Ok" THEN "Ok" ELSE "VerificationError",
                        accepted |-> v.accepted]
          /\ synced_block' = task.to_block
          /\ IF v.status = "Ok"
             THEN UNCHANGED failures
             ELSE /\ failures < MaxFailures
                  /\ failures' = failures + 1
    /\ task' = Idle
    /\ UNCHANGED <<chain, accounts, matched_events, seen_commitments>>
    /\ UNCHANGED OutsideIndexer

\* The end of sync_to: rebuild, verify, advance synced_block.
SyncFinish(answers) ==
    /\ task.pc = "sync_to"
    /\ task.stream = <<>>
    /\ LET rebuilt == RebuildAll(utxo_trees)
           v == UtxoIndexer_verify(rebuilt, answers)
       IN /\ utxo_trees' = rebuilt
          /\ result' = [op |-> "sync_to",
                        status |-> IF v.status = "Ok" THEN "Ok" ELSE "VerificationError",
                        accepted |-> v.accepted]
          /\ IF v.status = "Ok"
             THEN synced_block' = task.to_block /\ UNCHANGED failures
             ELSE /\ failures < MaxFailures
                  /\ failures' = failures + 1
                  /\ UNCHANGED synced_block
    /\ task' = Idle
    /\ UNCHANGED <<chain, accounts, matched_events, seen_commitments>>
    /\ UNCHANGED OutsideIndexer

\* UtxoIndexer::register(signer).
Register(signer) ==
    /\ task.pc = "idle"
    /\ Len(accounts) < MaxAccounts
    /\ \A i \in 1..Len(accounts) : accounts[i].signer # signer
    /\ LET r == Replay([Ix EXCEPT !.accounts = Append(@, IndexedAccount_new(signer))],
                       matched_events, 1)
       IN /\ utxo_trees' = r.utxo_trees
          /\ accounts' = r.accounts
          /\ seen_commitments' = r.seen_commitments
    /\ result' = NoSyncResult
    /\ UNCHANGED <<chain, synced_block, matched_events, task, failures>>
    /\ UNCHANGED OutsideIndexer

\* UtxoIndexer::register_resync(signer, from_block): todo!() panics.
RegisterResync(signer, from_block) ==
    /\ task.pc = "idle"
    /\ task' = [pc |-> "panicked"]
    /\ result' = [op |-> "register_resync", status |-> "Panic", accepted |-> {},
                  signer |-> signer, from_block |-> from_block]
    /\ UNCHANGED <<chain, utxo_trees, synced_block, accounts, matched_events,
                   seen_commitments, failures>>
    /\ UNCHANGED OutsideIndexer

\* UtxoIndexer::reset().
Reset ==
    /\ task.pc = "idle"
    /\ utxo_trees' = EmptyMap
    /\ synced_block' = 0
    /\ accounts' = <<>>
    /\ matched_events' = <<>>
    /\ seen_commitments' = {}
    /\ failures' = 0
    /\ result' = NoSyncResult
    /\ UNCHANGED <<chain, task>>
    /\ UNCHANGED OutsideIndexer

\* A restart: UtxoIndexer::new followed by set_state(state()) of the old
\* indexer.  Accounts and seen commitments are not part of the snapshot.
Restart ==
    /\ task.pc = "idle"
    /\ utxo_trees' = [t \in DOMAIN utxo_trees |->
                         MerkleTree_from_state(MerkleTree_state(utxo_trees[t]))]
    /\ accounts' = <<>>
    /\ seen_commitments' = {}
    /\ result' = NoSyncResult
    /\ UNCHANGED <<chain, synced_block, matched_events, task, failures>>
    /\ UNCHANGED OutsideIndexer

Next ==
    \/ MineBlock
    \/ \E to_block \in 1..(MaxBlocks + 1) : SyncTo(to_block)
    \/ SyncToSyncerError
    \/ SyncNextEvent
    \/ \E answers \in [DOMAIN utxo_trees -> {"valid", "invalid", "error"}] :
           SyncFinish(answers)
    \/ \E signer \in Signers : Register(signer)
    \/ \E signer \in Signers, from_block \in 0..MaxBlocks : RegisterResync(signer, from_block)
    \/ Reset
    \/ Restart

(* --------------------------- await_commitments --------------------------- *)

\* UtxoIndexer::has_commitments(commitments).
has_commitments(seen, commitments) ==
    \A c \in commitments : c \in seen

\* The commitment sets a caller waits for: hashes of the first notes a
\* Transact event of the model can carry, and the empty set.
AwaitSets ==
    {{}, {PoseidonLeaf(1, 1, 1)}, {PoseidonLeaf(1, 1, 1), PoseidonLeaf(2, 1, 2)}}

\* No await_commitments call is in flight.
NoWaiter == [pc |-> "none"]

\* History kept with the call: whether the timeout has elapsed at an instant t
\* at which some awaited commitment was still unobserved.
Expired(w, t, seen) ==
    w.expired \/ (t - w.start >= w.timeout /\ ~has_commitments(seen, w.commitments))

\* The locals of a call of await_commitments that has just read the clock.
NewWaiter(commitments, timeout) ==
    [pc |-> "loop", commitments |-> commitments, timeout |-> timeout,
     start |-> now, status |-> "None",
     expired |-> timeout = 0 /\ ~has_commitments(seen_commitments, commitments)]

AwaitInit ==
    /\ waiter = NoWaiter
    /\ now = 0

\* The chain grows while no sync of the waiting call is between its start and
\* the caller's look at what it returned.
AwaitMineBlock ==
    /\ waiter.pc = "loop" => result.op = "none"
    /\ MineBlock

\* await_commitments(commitments, poll_interval, timeout) is called:
\* `let start = Instant::now()`.
AwaitCommitments(commitments, timeout) ==
    /\ waiter.pc \in {"none", "returned"}
    /\ task.pc = "idle"
    /\ waiter' = NewWaiter(commitments, timeout)
    /\ result' = NoSyncResult
    /\ UNCHANGED <<chain, utxo_trees, synced_block, accounts, matched_events,
                   seen_commitments, task, failures, now>>
    /\ UNCHANGED OutsideAwait

\* `self.sync().await`: sync_to(u64::MAX), here any block past the latest.
AwaitSync ==
    /\ waiter.pc = "loop"
    /\ result.op = "none"
    /\ SyncTo(MaxBlocks + 1)

\* `self.sync().await` when the syncer fails.
AwaitSyncSyncerError ==
    /\ waiter.pc = "loop"
    /\ result.op = "none"
    /\ SyncToSyncerError

\* The stream loop of the sync of the waiting call.
AwaitSyncNextEvent ==
    /\ waiter.pc = "loop"
    /\ SyncNextEvent

\* Rebuild and verification of the sync of the waiting call.
AwaitSyncFinish(answers) ==
    /\ waiter.pc = "loop"
    /\ SyncFinish(answers)

\* Time passes while the call is awaiting its sync.
Tick ==
    /\ waiter.pc = "loop"
    /\ now < MaxTime
    /\ now' = now + 1
    /\ waiter' = [waiter EXCEPT !.expired = Expired(waiter, now + 1, seen_commitments)]
    /\ UNCHANGED indexerVars
    /\ UNCHANGED OutsideAwait

\* A check that looks at the clock before it looks at the commitments.
AwaitCheck_TimeoutFirst ==
    /\ waiter.pc = "loop"
    /\ task.pc = "idle"
    /\ result.op = "sync_to"
    /\ waiter' =
           IF result.status # "Ok"
           THEN [waiter EXCEPT !.pc = "returned", !.status = result.status]
           ELSE IF now - waiter.start >= waiter.timeout
           THEN [waiter EXCEPT !.pc = "returned", !.status = "Timeout"]
           ELSE IF has_commitments(seen_commitments, waiter.commitments)
           THEN [waiter EXCEPT !.pc = "returned", !.status = "Ok"]
           ELSE [waiter EXCEPT !.pc = "sleep"]
    /\ result' = NoSyncResult
    /\ UNCHANGED <<chain, utxo_trees, synced_block, accounts, matched_events,
                   seen_commitments, task, failures, now>>
    /\ UNCHANGED OutsideAwait

\* The loop body after `self.sync().await`: `?`, has_commitments, the timeout.
AwaitCheck ==
    /\ waiter.pc = "loop"
    /\ task.pc = "idle"
    /\ result.op = "sync_to"
    /\ waiter' =
           IF result.status # "Ok"
           THEN [waiter EXCEPT !.pc = "returned", !.status = result.status]
           ELSE IF has_commitments(seen_commitments, waiter.commitments)
           THEN [waiter EXCEPT !.pc = "returned", !.status = "Ok"]
           ELSE IF now - waiter.start >= waiter.timeout
           THEN [waiter EXCEPT !.pc = "returned", !.status = "Timeout"]
           ELSE [waiter EXCEPT !.pc = "sleep"]
    /\ result' = NoSyncResult
    /\ UNCHANGED <<chain, utxo_trees, synced_block, accounts, matched_events,
                   seen_commitments, task, failures, now>>
    /\ UNCHANGED OutsideAwait

\* `sleep(poll_interval).await` returns: at least poll_interval has passed.
AwaitWake ==
    /\ waiter.pc = "sleep"
    /\ now + PollInterval <= MaxTime
    /\ now' = now + PollInterval
    /\ waiter' = [waiter EXCEPT !.pc = "loop",
                                !.expired = Expired(waiter, now + PollInterval,
                                                    seen_commitments)]
    /\ UNCHANGED indexerVars
    /\ UNCHANGED OutsideAwait

AwaitNext ==
    \/ AwaitMineBlock
    \/ \E commitments \in AwaitSets, timeout \in 0..MaxTimeout :
           AwaitCommitments(commitments, timeout)
    \/ AwaitSync
    \/ AwaitSyncSyncerError
    \/ AwaitSyncNextEvent
    \/ \E answers \in [DOMAIN utxo_trees -> {"valid", "invalid", "error"}] :
           AwaitSyncFinish(answers)
    \/ Tick
    \/ AwaitCheck
    \/ AwaitWake

(* -------------------------- PoiProvider::broadcast ----------------------- *)

\* No broadcast call is in flight.
NoBroadcast == [pc |-> "none"]

BroadcastInit ==
    bc = NoBroadcast

\* The output commitments of the transactions handed to broadcast.
TxCommitments == AwaitSets \ {{}}

\* The chain grows while no sync of the call is between its start and the
\* look at what it returned.
BroadcastMineBlock ==
    /\ (waiter.pc = "loop" \/ bc.pc = "sync") => result.op = "none"
    /\ MineBlock

\* broadcast(broadcaster, tx) up to the select: both futures are created,
\* await_commitments(commitments, 5 s, 120 s) reads the clock.
Broadcast(commitments) ==
    /\ bc.pc \in {"none", "returned"}
    /\ waiter.pc \in {"none", "returned"}
    /\ task.pc = "idle"
    /\ bc' = [pc |-> "select", commitments |-> commitments, first |-> "none",
              left |-> "pending", right |-> "pending", status |-> "None"]
    /\ waiter' = NewWaiter(commitments, MaxTimeout)
    /\ result' = NoSyncResult
    /\ UNCHANGED <<chain, utxo_trees, synced_block, accounts, matched_events,
                   seen_commitments, task, failures, now>>
    /\ UNCHANGED OutsideBroadcast

\* The trees a sync_to future leaves when it is dropped: as they are, or
\* rebuilt when it is dropped awaiting the verifier.
DroppedSync(point) ==
    IF point = "verify" THEN RebuildAll(utxo_trees) ELSE utxo_trees

\* select: the broadcaster's future resolves first, with a transaction hash
\* or an error; the await_commitments future is dropped where it is.
BroadcasterResponds(answer, point) ==
    /\ bc.pc = "select"
    /\ waiter.pc \in {"loop", "sleep"}
    /\ waiter.pc = "loop" => result.op = "none"
    /\ point = "verify" => (task.pc = "sync_to" /\ task.stream = <<>>)
    /\ bc' = [bc EXCEPT !.first = "left", !.left = answer,
                        !.pc = IF answer = "tx_hash" THEN "sync" ELSE "returned",
                        !.status = IF answer = "tx_hash" THEN "None" ELSE "Broadcast"]
    /\ waiter' = NoWaiter
    /\ task' = Idle
    /\ utxo_trees' = DroppedSync(point)
    /\ result' = NoSyncResult
    /\ UNCHANGED <<chain, synced_block, accounts, matched_events, seen_commitments,
                   failures, now>>
    /\ UNCHANGED OutsideBroadcast

\* A select that takes the timeout of the commitment wait for a confirmation.
IndexerResolves_TimeoutConfirms ==
    /\ bc.pc = "select"
    /\ waiter.pc = "returned"
    /\ bc' = [bc EXCEPT !.first = "right", !.right = waiter.status,
                        !.pc = IF waiter.status \in {"Ok", "Timeout"}
                               THEN "sync" ELSE "returned",
                        !.status = IF waiter.status \in {"Ok", "Timeout"}
                                   THEN "None" ELSE "RailgunProvider"]
    /\ waiter' = NoWaiter
    /\ result' = NoSyncResult
    /\ UNCHANGED <<chain, utxo_trees, synced_block, accounts, matched_events,
                   seen_commitments, task, failures, now>>
    /\ UNCHANGED OutsideBroadcast

\* select: the await_commitments future resolves first.
IndexerResolves ==
    /\ bc.pc = "select"
    /\ waiter.pc = "returned"
    /\ bc' = [bc EXCEPT !.first = "right", !.right = waiter.status,
                        !.pc = IF waiter.status = "Ok" THEN "sync" ELSE "returned",
                        !.status = CASE waiter.status = "Ok" -> "None"
                                     [] waiter.status = "Timeout" -> "Timeout"
                                     [] OTHER -> "RailgunProvider"]
    /\ waiter' = NoWaiter
    /\ result' = NoSyncResult
    /\ UNCHANGED <<chain, utxo_trees, synced_block, accounts, matched_events,
                   seen_commitments, task, failures, now>>
    /\ UNCHANGED OutsideBroadcast

\* `self.sync().await?` after the select: the Shield-UTXO sync.
BroadcastSync ==
    /\ bc.pc = "sync"
    /\ result.op = "none"
    /\ SyncTo(MaxBlocks + 1)

BroadcastSyncSyncerError ==
    /\ bc.pc = "sync"
    /\ result.op = "none"
    /\ SyncToSyncerError

BroadcastSyncNextEvent ==
    /\ bc.pc = "sync"
    /\ SyncNextEvent

BroadcastSyncFinish(answers) ==
    /\ bc.pc = "sync"
    /\ SyncFinish(answers)

\* The rest of PoiProvider::sync (TXID sync, pending POI submission), which
\* succeeds or fails, and the return of broadcast.
BroadcastReturn(rest_ok) ==
    /\ bc.pc = "sync"
    /\ task.pc = "idle"
    /\ result.op = "sync_to"
    /\ bc' = [bc EXCEPT !.pc = "returned",
                        !.status = IF result.status # "Ok" THEN "RailgunProvider"
                                   ELSE IF rest_ok THEN "Ok" ELSE "TxidIndexer"]
    /\ result' = NoSyncResult
    /\ UNCHANGED <<chain, utxo_trees, synced_block, accounts, matched_events,
                   seen_commitments, task, failures>>
    /\ UNCHANGED awaitVars
    /\ UNCHANGED OutsideBroadcast

BroadcastNext ==
    \/ BroadcastMineBlock
    \/ \E commitments \in TxCommitments : Broadcast(commitments)
    \/ AwaitSync
    \/ AwaitSyncSyncerError
    \/ AwaitSyncNextEvent
    \/ \E answers \in [DOMAIN utxo_trees -> {"valid", "invalid", "error"}] :
           AwaitSyncFinish(answers)
    \/ Tick
    \/ AwaitCheck
    \/ AwaitWake
    \/ \E answer \in {"tx_hash", "error"}, point \in {"stream", "verify"} :
           BroadcasterResponds(answer, point)
    \/ IndexerResolves
    \/ BroadcastSync
    \/ BroadcastSyncSyncerError
    \/ BroadcastSyncNextEvent
    \/ \E answers \in [DOMAIN utxo_trees -> {"valid", "invalid", "error"}] :
           BroadcastSyncFinish(answers)
    \/ \E rest_ok \in BOOLEAN : BroadcastReturn(rest_ok)

(* ------------------------- dropping a sync future ------------------------ *)

NoProbe ==
    [pc |-> "none", from_block |-> 0, to_block |-> 0, start |-> EmptyMap,
     expected |-> EmptyMap, left |-> EmptyMap, applied |-> 0, cancels |-> 0]

CancelInit ==
    probe = NoProbe

\* The trees sync_to leaves when it handles the whole stream on the given
\* trees and rebuilds.
Uninterrupted(trees, stream) ==
    RebuildAll(Replay([utxo_trees |-> trees, accounts |-> <<>>,
                       seen_commitments |-> {}], stream, 1).utxo_trees)

\* sync_to(to_block) up to the stream, as SyncTo; the history notes where the
\* sync starts, or that it takes up the range of the sync dropped before it.
CancellableSyncTo(to_block) ==
    /\ task.pc = "idle"
    /\ LET from_block == synced_block + 1
           latest_block == Len(chain)
           to == IF to_block < latest_block THEN to_block ELSE latest_block
       IN IF from_block > to
          THEN /\ result' = [op |-> "sync_to", status |-> "Ok", accepted |-> {}]
               /\ UNCHANGED <<task, probe>>
          ELSE /\ task' = [pc |-> "sync_to", from_block |-> from_block,
                           to_block |-> to, stream |-> SubSeq(chain, from_block, to)]
               /\ result' = NoSyncResult
               /\ probe' =
                      IF /\ probe.pc = "cancelled"
                         /\ probe.left = utxo_trees
                         /\ probe.from_block = from_block
                         /\ probe.to_block = to
                      THEN [probe EXCEPT !.pc = "resumed"]
                      ELSE [pc |-> "running", from_block |-> from_block, to_block |-> to,
                            start |-> utxo_trees,
                            expected |-> Uninterrupted(utxo_trees,
                                                       SubSeq(chain, from_block, to)),
                            left |-> EmptyMap, applied |-> 0,
                            cancels |-> probe.cancels]
    /\ UNCHANGED <<chain, utxo_trees, synced_block, accounts, matched_events,
                   seen_commitments, failures>>
    /\ UNCHANGED OutsideCancel

\* A dropped sync_to future that had already stored its target block.
CancelSync_Advances(point) ==
    /\ task.pc = "sync_to"
    /\ probe.cancels < MaxCancels
    /\ point = "verify" => task.stream = <<>>
    /\ utxo_trees' = DroppedSync(point)
    /\ synced_block' = task.to_block
    /\ task' = Idle
    /\ result' = NoSyncResult
    /\ probe' = [probe EXCEPT !.pc = "cancelled", !.left = DroppedSync(point),
                              !.cancels = @ + 1,
                              !.applied = (task.to_block - task.from_block + 1)
                                              - Len(task.stream)]
    /\ UNCHANGED <<chain, accounts, matched_events, seen_commitments, failures>>
    /\ UNCHANGED OutsideCancel

\* The sync_to future is dropped at a suspension point: awaiting the next
\* event of the stream, or awaiting the verifier after the rebuild.
CancelSync(point) ==
    /\ task.pc = "sync_to"
    /\ probe.cancels < MaxCancels
    /\ point = "verify" => task.stream = <<>>
    /\ utxo_trees' = DroppedSync(point)
    /\ task' = Idle
    /\ result' = NoSyncResult
    /\ probe' = [probe EXCEPT !.pc = "cancelled", !.left = DroppedSync(point),
                              !.cancels = @ + 1,
                              !.applied = (task.to_block - task.from_block + 1)
                                              - Len(task.stream)]
    /\ UNCHANGED <<chain, synced_block, accounts, matched_events, seen_commitments,
                   failures>>
    /\ UNCHANGED OutsideCancel

CancelNext ==
    \/ MineBlock
    \/ \E to_block \in 1..(MaxBlocks + 1) : CancellableSyncTo(to_block)
    \/ SyncNextEvent
    \/ \E answers \in [DOMAIN utxo_trees -> {"valid", "invalid", "error"}] :
           SyncFinish(answers)
    \/ \E point \in {"stream", "verify"} : CancelSync(point)
    \/ \E signer \in Signers : Register(signer)

(* ------------------------------ note syncers ---------------------------- *)

\* The first n elements of a sequence (a query's `limit`).
Take(seq, n) ==
    SubSeq(seq, 1, IF n < Len(seq) THEN n ELSE Len(seq))

\* The events of the blocks from_block..to_block, in chain order: what
\* provider.get_logs returns for the range.
get_logs(events, from_block, to_block) ==
    SelectSeq(events, LAMBDA e : from_block <= e.block /\ e.block <= to_block)

\* RpcSyncer::event_stream_inner(from_block, to_block): one get_logs call per
\* batch of batch_size blocks, the logs of a batch decoded in their order.
RECURSIVE event_stream_inner(_, _, _)
event_stream_inner(events, current_block, to_block) ==
    IF current_block > to_block THEN <<>>
    ELSE LET last == current_block + RpcBatchSize - 1
             batch_end == IF last < to_block THEN last ELSE to_block
         IN get_logs(events, current_block, batch_end)
                \o event_stream_inner(events, batch_end + 1, to_block)

\* The indexing service stores one entity per nullifier: a Nullified event
\* with several nullifiers is served as one entity for each.
RECURSIVE SquidEntities(_)
SquidEntities(events) ==
    IF events = <<>> THEN <<>>
    ELSE LET e == Head(events)
         IN (IF e.kind = "Nullified"
             THEN [i \in 1..Len(e.nullifier) |->
                      [e EXCEPT !.nullifier = <<e.nullifier[i]>>]]
             ELSE <<e>>) \o SquidEntities(Tail(events))

\* The entities of a query: of the given kinds, of the blocks of the range, in
\* id order (here chain order), each with its id.
SquidQuery(events, kinds, from_block, to_block) ==
    LET all == SelectSeq(SquidEntities(events),
                         LAMBDA e : /\ e.kind \in kinds
                                    /\ from_block <= e.block /\ e.block <= to_block)
    IN [i \in 1..Len(all) |-> [id |-> i, event |-> all[i]]]

\* SubsquidSyncer::fetch_commitment_events(from_block, to_block, after_id):
\* the page of commitments after after_id, split by kind.
fetch_commitment_events(events, from_block, to_block, after_id) ==
    LET commitments ==
            Take(SelectSeq(SquidQuery(events, {"Shield", "Transact", "Legacy"},
                                      from_block, to_block),
                           LAMBDA c : c.id > after_id),
                 SubsquidBatchSize)
        OfKind(kind) ==
            LET cs == SelectSeq(commitments, LAMBDA c : c.event.kind = kind)
            IN [i \in 1..Len(cs) |-> cs[i].event]
    IN [shield_events |-> OfKind("Shield"),
        transact_events |-> OfKind("Transact"),
        legacy_events |-> OfKind("Legacy"),
        last_id |-> IF commitments = <<>> THEN 0
                    ELSE commitments[Len(commitments)].id]

\* SubsquidSyncer::commitment_stream_inner(from_block, to_block): page after
\* page until an empty one; of each page the shields, then the transacts, then
\* the legacy commitments.
RECURSIVE commitment_stream_inner(_, _, _, _)
commitment_stream_inner(events, from_block, to_block, last_id) ==
    LET batch == fetch_commitment_events(events, from_block, to_block, last_id)
    IN IF /\ batch.shield_events = <<>>
          /\ batch.transact_events = <<>>
          /\ batch.legacy_events = <<>>
       THEN <<>>
       ELSE batch.shield_events \o batch.transact_events \o batch.legacy_events
                \o commitment_stream_inner(events, from_block, to_block, batch.last_id)

\* SubsquidSyncer::fetch_nullified_events(from_block, to_block, after_id).
fetch_nullified_events(events, from_block, to_block, after_id) ==
    LET nullifieds ==
            Take(SelectSeq(SquidQuery(events, {"Nullified"}, from_block, to_block),
                           LAMBDA n : n.id > after_id),
                 SubsquidBatchSize)
    IN [nullified_events |-> [i \in 1..Len(nullifieds) |-> nullifieds[i].event],
        last_id |-> IF nullifieds = <<>> THEN 0 ELSE nullifieds[Len(nullifieds)].id]

\* SubsquidSyncer::nullified_stream_inner(from_block, to_block).
RECURSIVE nullified_stream_inner(_, _, _, _)
nullified_stream_inner(events, from_block, to_block, last_id) ==
    LET batch == fetch_nullified_events(events, from_block, to_block, last_id)
    IN IF batch.nullified_events = <<>> THEN <<>>
       ELSE batch.nullified_events
                \o nullified_stream_inner(events, from_block, to_block, batch.last_id)

\* NoteSyncer for SubsquidSyncer::sync(from_block, to_block):
\* commitment_stream.chain(nullified_stream).
SubsquidSyncer_sync(events, from_block, to_block) ==
    commitment_stream_inner(events, from_block, to_block, 0)
        \o nullified_stream_inner(events, from_block, to_block, 0)

\* NoteSyncer for RpcSyncer::sync(from_block, to_block).
RpcSyncer_sync(events, from_block, to_block) ==
    event_stream_inner(events, from_block, to_block)

\* One of the syncers of a ChainedSyncer: its kind and its latest block.
NoteSyncer_sync(syncer, events, from_block, to_block) ==
    IF syncer.kind = "subsquid" THEN SubsquidSyncer_sync(events, from_block, to_block)
    ELSE RpcSyncer_sync(events, from_block, to_block)

\* ChainedSyncer::sync(from_block, to_block): each syncer in priority order
\* serves the blocks from current_from up to its own latest block.
RECURSIVE ChainedSyncer_sync(_, _, _, _, _)
ChainedSyncer_sync(syncers, i, events, current_from, to_block) ==
    IF i > Len(syncers) \/ current_from > to_block THEN <<>>
    ELSE LET syncer_latest == syncers[i].latest
             range_end == IF syncer_latest < to_block THEN syncer_latest ELSE to_block
         IN IF syncer_latest < current_from
            THEN ChainedSyncer_sync(syncers, i + 1, events, current_from, to_block)
            ELSE NoteSyncer_sync(syncers[i], events, current_from, range_end)
                     \o ChainedSyncer_sync(syncers, i + 1, events, range_end + 1, to_block)

NotDelivered ==
    [syncer |-> "none", from_block |-> 0, to_block |-> 0, latest |-> 0, events |-> <<>>]

SyncerInit ==
    delivered = NotDelivered

\* RpcSyncer::sync(from_block, to_block), the stream read to its end.
RpcSync(from_block, to_block) ==
    /\ delivered' = [syncer |-> "rpc", latest |-> Len(chain), from_block |-> from_block,
                     to_block |-> to_block,
                     events |-> RpcSyncer_sync(chain, from_block, to_block)]
    /\ UNCHANGED indexerVars
    /\ UNCHANGED OutsideSyncer

\* SubsquidSyncer::sync(from_block, to_block), the stream read to its end.
SubsquidSync(from_block, to_block) ==
    /\ delivered' = [syncer |-> "subsquid", latest |-> Len(chain), from_block |-> from_block,
                     to_block |-> to_block,
                     events |-> SubsquidSyncer_sync(chain, from_block, to_block)]
    /\ UNCHANGED indexerVars
    /\ UNCHANGED OutsideSyncer

\* ChainedSyncer::sync(from_block, to_block) over a Subsquid syncer that has
\* indexed the chain up to squid_latest and an RPC syncer at the chain's head.
ChainedSync(from_block, to_block, squid_latest) ==
    /\ squid_latest <= Len(chain)
    /\ delivered' = [syncer |-> "chained", latest |-> Len(chain), from_block |-> from_block,
                     to_block |-> to_block,
                     events |-> ChainedSyncer_sync(
                                    <<[kind |-> "subsquid", latest |-> squid_latest],
                                      [kind |-> "rpc", latest |-> Len(chain)]>>,
                                    1, chain, from_block, to_block)]
    /\ UNCHANGED indexerVars
    /\ UNCHANGED OutsideSyncer

SyncerNext ==
    \/ MineBlock
    \/ \E from_block \in 1..MaxBlocks, to_block \in 1..MaxBlocks :
           RpcSync(from_block, to_block)
    \/ \E from_block \in 1..MaxBlocks, to_block \in 1..MaxBlocks :
           SubsquidSync(from_block, to_block)
    \/ \E from_block \in 1..MaxBlocks, to_block \in 1..MaxBlocks,
          squid_latest \in 0..MaxBlocks :
           ChainedSync(from_block, to_block, squid_latest)

(* --------------------------- Pool-Mix indexer ---------------------------- *)

\* Number of deposits on the Pool-Mix chain: the next leaf index.
RECURSIVE Deposits(_, _)
Deposits(blocks, b) ==
    IF b = 0 THEN 0 ELSE Len(blocks[b]) + Deposits(blocks, b - 1)

\* Syncer::sync_commitments(contract, from_block, to_block): the Deposit logs
\* of the blocks of the range that exist, in block order.
RECURSIVE sync_commitments(_, _, _)
sync_commitments(blocks, from_block, to_block) ==
    IF from_block > to_block \/ from_block > Len(blocks) THEN <<>>
    ELSE blocks[from_block] \o sync_commitments(blocks, from_block + 1, to_block)

\* sort_by_key(|(idx, _)| *idx): a stable sort by leaf index.
RECURSIVE InsertSorted(_, _)
InsertSorted(sorted, c) ==
    IF sorted = <<>> THEN <<c>>
    ELSE IF c.leaf_index < Head(sorted).leaf_index THEN <<c>> \o sorted
    ELSE <<Head(sorted)>> \o InsertSorted(Tail(sorted), c)

RECURSIVE sort_by_key(_)
sort_by_key(leaves) ==
    IF leaves = <<>> THEN <<>>
    ELSE InsertSorted(sort_by_key(SubSeq(leaves, 1, Len(leaves) - 1)), leaves[Len(leaves)])

\* The body of Indexer::sync_to(to_block) once the range is not empty and the
\* syncer has answered: sort, insert at the first leaf index, rebuild, advance.
Indexer_sync_to(tree, to_block, commitments) ==
    LET sorted == sort_by_key(commitments)
        vals == [i \in 1..Len(sorted) |-> sorted[i].commitment]
    IN [tree |-> IF sorted # <<>>
                 THEN rebuild(insert_leaves_raw(tree, vals, sorted[1].leaf_index))
                 ELSE tree,
        synced_block |-> to_block]

NoTcResult == [op |-> "none", status |-> "None"]

\* Indexer::new(syncer, verifier, pool).
TcInit ==
    /\ tc_chain = <<>>
    /\ tc_tree = MerkleTree_new(0)
    /\ tc_synced_block = 0
    /\ tc_result = NoTcResult

\* The pool contract takes the deposits of one more block.
TcMineBlock(n) ==
    LET next == Deposits(tc_chain, Len(tc_chain))
    IN /\ Len(tc_chain) < MaxBlocks
       /\ next + n <= TOTAL_LEAVES
       /\ tc_chain' = Append(tc_chain,
              [i \in 1..n |-> [block_number |-> Len(tc_chain) + 1,
                               leaf_index |-> next + i - 1,
                               commitment |-> next + i]])
       /\ tc_result' = NoTcResult
       /\ UNCHANGED <<tc_tree, tc_synced_block>>
       /\ UNCHANGED OutsideTc

\* Indexer::sync_to(to_block).
TcSyncTo(to_block) ==
    LET from_block == tc_synced_block + 1
    IN /\ IF from_block > to_block
          THEN UNCHANGED <<tc_tree, tc_synced_block>>
          ELSE LET r == Indexer_sync_to(tc_tree, to_block,
                                        sync_commitments(tc_chain, from_block, to_block))
               IN /\ tc_tree' = r.tree
                  /\ tc_synced_block' = r.synced_block
       /\ tc_result' = [op |-> "sync_to", status |-> "Ok"]
       /\ UNCHANGED tc_chain
       /\ UNCHANGED OutsideTc

\* Indexer::sync(): sync_to(latest_block()).
TcSync == TcSyncTo(Len(tc_chain))

\* sync or sync_to when the syncer fails: the error is returned, nothing is
\* written.
TcSyncerError ==
    /\ tc_result' = [op |-> "sync_to", status |-> "SyncerError"]
    /\ UNCHANGED <<tc_chain, tc_tree, tc_synced_block>>
    /\ UNCHANGED OutsideTc

\* Indexer::verify(): the verifier is asked about the tree's root.
TcVerify(answer) ==
    /\ tc_result' = [op |-> "verify",
                     status |-> CASE answer = "valid" -> "Ok"
                                  [] answer = "invalid" -> "InvalidRoot"
                                  [] answer = "error" -> "VerifierError"]
    /\ UNCHANGED <<tc_chain, tc_tree, tc_synced_block>>
    /\ UNCHANGED OutsideTc

TcNext ==
    \/ \E n \in 0..MaxDeposits : TcMineBlock(n)
    \/ \E to_block \in 0..(MaxBlocks + 1) : TcSyncTo(to_block)
    \/ TcSync
    \/ TcSyncerError
    \/ \E answer \in {"valid", "invalid", "error"} : TcVerify(answer)

(* --------------------------- transaction builder ------------------------- *)

\* u128::MAX + 1, scaled.
U128_MODULUS == 2 ^ VALUE_BITS

\* The + of two u128 as a release build computes it.
wrapping_add(a, b) == (a + b) % U128_MODULUS

saturating_sub(a, b) == IF a > b THEN a - b ELSE 0

\* Iterator::sum over u128 values as a release build computes it.
RECURSIVE Iterator_sum(_)
Iterator_sum(values) ==
    IF values = <<>> THEN 0
    ELSE wrapping_add(Head(values), Iterator_sum(Tail(values)))

\* The sum of the values as integers.
RECURSIVE exact_sum(_)
exact_sum(values) ==
    IF values = <<>> THEN 0 ELSE Head(values) + exact_sum(Tail(values))

\* notes.iter().map(|n| n.value())
ValuesOf(notes) == [i \in 1..Len(notes) |-> notes[i].value]

\* Assets of the notes and of the drafts.
Assets == {1, 2}

DraftAssets == {1}

\* Values of the unspent notes, of the transfers and of the unshields.
NoteValues == {1, 4}

TransferValues == {4}

UnshieldValues == {2}

\* A UtxoNote as the builder reads it: its owner, asset, value and tree.  The
\* first signer holds notes of the drafted asset of every value in every tree,
\* and one note of the other asset; the other signers hold one note each.
UtxoNotes ==
    [owner : {1}, asset : DraftAssets, value : NoteValues,
     tree_number : 0..(MaxTrees - 1)]
        \cup [owner : {1}, asset : Assets \ DraftAssets, value : {4},
              tree_number : {0}]
        \cup [owner : 2..NumSigners, asset : DraftAssets, value : {4},
              tree_number : {0}]

\* UtxoIndexer::all_unspent: the notes account by account, and within an
\* account notebook by notebook, that is by ascending tree number.
AllUnspent ==
    {notes \in UNION {[1..n -> UtxoNotes] : n \in 0..MaxNotes} :
        \A i, j \in 1..Len(notes) :
            (i < j /\ notes[i].owner = notes[j].owner)
                => notes[i].tree_number <= notes[j].tree_number}

\* TransactionBuilder.transfers and TransactionBuilder.unshields (at most one
\* unshield per asset).
TransferDatas == [from : 1..NumSigners, asset : DraftAssets, value : TransferValues]

TransferLists == UNION {[1..n -> TransferDatas] : n \in 0..MaxTransfers}

UnshieldDatas == [from : 1..NumSigners, asset : DraftAssets, value : UnshieldValues]

UnshieldMaps ==
    {us \in SUBSET UnshieldDatas : \A u, v \in us : u.asset = v.asset => u = v}

TransferNote_new(to, asset, value, memo) ==
    [to |-> to, asset |-> asset, value |-> value, memo |-> memo]

Operation_new_empty(tree_number, from, asset) ==
    [utxo_tree_number |-> tree_number, from |-> from, asset |-> asset,
     in_notes |-> <<>>, out_notes |-> <<>>, unshield_note |-> <<>>]

Operation_in_value(op) == Iterator_sum(ValuesOf(op.in_notes))

unshield_value(op) ==
    IF op.unshield_note = <<>> THEN 0 ELSE op.unshield_note[1].value

Operation_out_value(op) ==
    wrapping_add(Iterator_sum(ValuesOf(op.out_notes)), unshield_value(op))

\* Operation::verify: "Ok" or the error it returns.
Operation_verify(op) ==
    IF Operation_in_value(op)
           # wrapping_add(Iterator_sum(ValuesOf(op.out_notes)), unshield_value(op))
    THEN "Imbalanced"
    ELSE IF Len(op.out_notes) + Len(op.unshield_note) > NOTE_LIMIT
    THEN "TooManyOutputNotes"
    ELSE IF Len(op.in_notes) > NOTE_LIMIT
    THEN "TooManyInputNotes"
    ELSE "Ok"

\* draft_operations: the output notes grouped by (from, asset); the recipient
\* of every transfer is the address 0.
draft_operations(transfers, unshields) ==
    LET keys == {<<transfers[i].from, transfers[i].asset>> : i \in DOMAIN transfers}
                    \cup {<<u.from, u.asset>> : u \in unshields}
        of_key(k) ==
            SelectSeq(transfers, LAMBDA t : t.from = k[1] /\ t.asset = k[2])
    IN  [k \in keys |->
            [Operation_new_empty(0, k[1], k[2]) EXCEPT
                !.out_notes =
                    [i \in 1..Len(of_key(k)) |->
                        TransferNote_new(0, k[2], of_key(k)[i].value, "")],
                !.unshield_note =
                    IF \E u \in unshields : u.from = k[1] /\ u.asset = k[2]
                    THEN <<[asset |-> k[2],
                            value |-> (CHOOSE u \in unshields :
                                           u.from = k[1] /\ u.asset = k[2]).value]>>
                    ELSE <<>>]]

\* The loop of select_in_notes over the notes not yet looked at.
RECURSIVE select_in_notes_loop(_, _, _, _, _, _)
select_in_notes_loop(from, asset, value, rest, selected, total) ==
    IF rest = <<>> THEN selected
    ELSE IF Head(rest).owner = from /\ Head(rest).asset = asset
    THEN IF wrapping_add(total, Head(rest).value) >= value
         THEN Append(selected, Head(rest))
         ELSE select_in_notes_loop(from, asset, value, Tail(rest),
                                   Append(selected, Head(rest)),
                                   wrapping_add(total, Head(rest).value))
    ELSE select_in_notes_loop(from, asset, value, Tail(rest), selected, total)

select_in_notes(from, asset, value, in_notes) ==
    select_in_notes_loop(from, asset, value, in_notes, <<>>, 0)

\* split_trees: the error, the todo!() panic, or the one operation.
split_trees(operation) ==
    IF operation.in_notes = <<>>
    THEN [status |-> "Err", error |-> "NoInputNotes", operations |-> <<>>]
    ELSE IF \E i \in DOMAIN operation.in_notes :
                operation.in_notes[i].tree_number
                    # operation.in_notes[1].tree_number
    THEN [status |-> "Panic", error |-> "todo", operations |-> <<>>]
    ELSE [status |-> "Ok", error |-> "",
          operations |->
              <<[operation EXCEPT
                    !.utxo_tree_number = operation.in_notes[1].tree_number]>>]

add_change_note(operation) ==
    IF saturating_sub(Operation_in_value(operation),
                      Operation_out_value(operation)) > 0
    THEN [operation EXCEPT
            !.out_notes =
                Append(@, TransferNote_new(
                              operation.from, operation.asset,
                              saturating_sub(Operation_in_value(operation),
                                             Operation_out_value(operation)),
                              "change"))]
    ELSE operation

\* An addition of the build overflows u128: the requested value of the draft
\* or the running total of its selected notes.
Overflows(operation) ==
    \/ exact_sum(ValuesOf(operation.out_notes)) + unshield_value(operation)
           >= U128_MODULUS
    \/ exact_sum(ValuesOf(operation.in_notes)) >= U128_MODULUS

\* build_operations: every outcome the call can have.  The draft is a HashMap,
\* so any drafted operation may be the first one split and the first one
\* verified.  With overflow checks (a debug build) an overflowing addition
\* panics; without them (a release build) it wraps.
build_operations(draft, in_notes, overflow_checks) ==
    LET selected ==
            [k \in DOMAIN draft |->
                [draft[k] EXCEPT
                    !.in_notes = select_in_notes(k[1], k[2],
                                                 Operation_out_value(draft[k]),
                                                 in_notes)]]
        split == [k \in DOMAIN draft |-> split_trees(selected[k])]
        operations ==
            {add_change_note(split[k].operations[1]) :
                k \in {q \in DOMAIN draft : split[q].status = "Ok"}}
    IN  IF overflow_checks /\ \E k \in DOMAIN draft : Overflows(selected[k])
        THEN {[status |-> "Panic", error |-> "overflow", operations |-> {}]}
        ELSE IF \E k \in DOMAIN draft : split[k].status # "Ok"
        THEN {[status |-> split[k].status, error |-> split[k].error,
               operations |-> {}] :
                 k \in {q \in DOMAIN draft : split[q].status # "Ok"}}
        ELSE IF \E op \in operations : Operation_verify(op) # "Ok"
        THEN {[status |-> "Err", error |-> Operation_verify(op),
               operations |-> {}] :
                 op \in {o \in operations : Operation_verify(o) # "Ok"}}
        ELSE {[status |-> "Ok", error |-> "", operations |-> operations]}

NoBuild ==
    [transfers |-> <<>>, unshields |-> {}, in_notes |-> <<>>,
     overflow_checks |-> FALSE,
     outcome |-> [status |-> "None", error |-> "", operations |-> {}]]

BuilderInit == built = NoBuild

\* TransactionBuilder::new: a builder with no transfer and no unshield.
NewBuilder ==
    /\ built.outcome.status # "None"
    /\ built' = NoBuild
    /\ UNCHANGED OutsideBuilder

\* TransactionBuilder::build up to the proof: the builder's transfers and
\* unshields are drafted and, with the indexer's unspent notes, go through
\* build_operations.  build takes the builder by value, so a builder is built
\* once.
BuildOperations ==
    /\ built.outcome.status = "None"
    /\ \E transfers \in TransferLists, unshields \in UnshieldMaps,
          in_notes \in AllUnspent, overflow_checks \in BOOLEAN :
           \E outcome \in build_operations(draft_operations(transfers, unshields),
                                           in_notes, overflow_checks) :
               built' = [transfers |-> transfers, unshields |-> unshields,
                         in_notes |-> in_notes,
                         overflow_checks |-> overflow_checks,
                         outcome |-> outcome]
    /\ UNCHANGED OutsideBuilder

BuilderNext ==
    \/ NewBuilder
    \/ BuildOperations

(* --------------------------- broadcaster manager ------------------------- *)

BROADCASTER_VERSION == "8"

\* The whitelists a manager is created with.
Whitelists == {{}, {1}}

\* Railgun addresses of the broadcasters, fee tokens, and the values a fee
\* message may carry.
BroadcasterAddresses == 1..NumBroadcasters

FeeTokens == {1, 2}

FeeMaps ==
    {fees \in SUBSET [token : FeeTokens, fee_per_unit_gas : {1, 2}] :
        /\ \A f, g \in fees : f.token = g.token => f = g
        /\ \A f \in fees : f.token = 2 => (f.fee_per_unit_gas = 1 /\ fees # {f})}

\* BroadcasterFeeMessageData as decoded; reliability, a f64 between 0.0 and
\* 1.0 in the code, is counted in steps of 1/RELIABILITY_GRAIN percent.
FeeMessageDatas ==
    [railgun_address : BroadcasterAddresses,
     fees : FeeMaps,
     fee_expiration : 1..MaxExpiration,
     available_wallets : {0, 1},
     reliability : 0..RELIABILITY_GRAIN,
     version : {"8.0.0"},
     decodable : {TRUE}]

\* The payloads of the fee topic: decodable with a compatible version,
\* decodable with another major version, and not decodable.
WakuMessages ==
    FeeMessageDatas
        \cup {[railgun_address |-> 1, fees |-> {}, fee_expiration |-> 1,
               available_wallets |-> 1, reliability |-> 0, version |-> "7.2.0",
               decodable |-> TRUE]}
        \cup {[railgun_address |-> 1, fees |-> {}, fee_expiration |-> 1,
               available_wallets |-> 1, reliability |-> 0, version |-> "8.0.0",
               decodable |-> FALSE]}

\* version.split('.').next()
major_version(version) ==
    IF version = "8.0.0" THEN "8" ELSE IF version = "7.2.0" THEN "7" ELSE version

\* (fee_data.reliability * 100.0) as u32
reliability_percent(reliability) == reliability \div RELIABILITY_GRAIN

\* handle_fee_message: the cache after the message and the Result returned.
handle_fee_message(cache, msg) ==
    IF ~msg.decodable
    THEN [broadcasters |-> cache, status |-> "ParseError"]
    ELSE IF major_version(msg.version) # BROADCASTER_VERSION
    THEN [broadcasters |-> cache, status |-> "IncompatibleVersion"]
    ELSE [broadcasters |->
              {d \in cache : d.railgun_address # msg.railgun_address}
                  \cup {[railgun_address |-> msg.railgun_address,
                         token_fees |->
                             {[token |-> f.token,
                               fee_per_unit_gas |-> f.fee_per_unit_gas,
                               expiration |-> msg.fee_expiration,
                               available_wallets |-> msg.available_wallets,
                               reliability |->
                                   reliability_percent(msg.reliability)] :
                                 f \in msg.fees}]},
          status |-> "Ok"]

\* The comparison of min_by: fee ascending, then reliability descending.
\* TRUE when a is not after b.
fee_then_reliability_ByFeeOnly(a, b) == a.fee_per_unit_gas <= b.fee_per_unit_gas

fee_then_reliability(a, b) ==
    \/ a.fee_per_unit_gas < b.fee_per_unit_gas
    \/ a.fee_per_unit_gas = b.fee_per_unit_gas /\ a.reliability >= b.reliability

\* best_broadcaster_for_token: the values the call may return, as the set of
\* <<BroadcasterData, TokenFeeData>> pairs min_by may yield (the iteration
\* order of the HashMap decides between equal entries); empty for None.
best_broadcaster_for_token(cache, whitelisted, token, current_time) ==
    LET passing ==
            {d \in cache : whitelisted = {} \/ d.railgun_address \in whitelisted}
        valid ==
            {p \in UNION {{<<d, f>> : f \in d.token_fees} : d \in passing} :
                /\ p[2].token = token
                /\ p[2].expiration > current_time
                /\ p[2].available_wallets > 0}
    IN  {p \in valid : \A q \in valid : fee_then_reliability(p[2], q[2])}

NoManagerResult ==
    [op |-> "none", status |-> "None", token |-> 0, current_time |-> 0,
     address |-> 0, per_unit_gas |-> 0, reliability |-> 0]

ManagerInit ==
    /\ broadcasters = {}
    /\ whitelisted_broadcasters = {}
    /\ starter = [pc |-> "idle", backoff |-> 1]
    /\ mgr_result = NoManagerResult

\* BroadcasterManager::new with a whitelist.
NewManager(whitelisted) ==
    /\ starter.pc \in {"idle", "returned"}
    /\ broadcasters' = {}
    /\ whitelisted_broadcasters' = whitelisted
    /\ starter' = [pc |-> "idle", backoff |-> 1]
    /\ mgr_result' = NoManagerResult
    /\ UNCHANGED OutsideManager

\* start, up to its first subscribe.
Start ==
    /\ starter.pc = "idle"
    /\ starter' = [starter EXCEPT !.pc = "subscribing", !.backoff = 1]
    /\ UNCHANGED <<broadcasters, whitelisted_broadcasters, mgr_result>>
    /\ UNCHANGED OutsideManager

\* transport.subscribe returns a stream.
Subscribed ==
    /\ starter.pc = "subscribing"
    /\ starter' = [starter EXCEPT !.pc = "streaming"]
    /\ UNCHANGED <<broadcasters, whitelisted_broadcasters, mgr_result>>
    /\ UNCHANGED OutsideManager

\* transport.subscribe fails: the ? operator returns the error from start.
SubscribeFails ==
    /\ starter.pc = "subscribing"
    /\ starter' = [starter EXCEPT !.pc = "returned"]
    /\ mgr_result' = [NoManagerResult EXCEPT !.op = "start", !.status = "Transport"]
    /\ UNCHANGED <<broadcasters, whitelisted_broadcasters>>
    /\ UNCHANGED OutsideManager

\* The stream yields a message: the backoff is reset and the message handled.
StreamMessage(msg) ==
    /\ starter.pc = "streaming"
    /\ starter' = [starter EXCEPT !.backoff = 1]
    /\ broadcasters' = handle_fee_message(broadcasters, msg).broadcasters
    /\ mgr_result' =
           [NoManagerResult EXCEPT
               !.op = "handle_fee_message",
               !.status = handle_fee_message(broadcasters, msg).status]
    /\ UNCHANGED whitelisted_broadcasters
    /\ UNCHANGED OutsideManager

\* The stream closes, or no message arrives for the staleness timeout: start
\* sleeps for the backoff.
StreamEnds ==
    /\ starter.pc = "streaming"
    /\ starter' = [starter EXCEPT !.pc = "sleeping"]
    /\ UNCHANGED <<broadcasters, whitelisted_broadcasters, mgr_result>>
    /\ UNCHANGED OutsideManager

\* The sleep is over: the backoff doubles up to max_backoff and start
\* subscribes again.
Resubscribe ==
    /\ starter.pc = "sleeping"
    /\ starter' = [pc |-> "subscribing",
                   backoff |-> IF starter.backoff * 2 < MaxBackoff
                               THEN starter.backoff * 2 ELSE MaxBackoff]
    /\ UNCHANGED <<broadcasters, whitelisted_broadcasters, mgr_result>>
    /\ UNCHANGED OutsideManager

\* best_broadcaster_for_token on a clone of the manager.
BestBroadcasterForToken(token, current_time) ==
    /\ LET best == best_broadcaster_for_token(broadcasters, whitelisted_broadcasters,
                                              token, current_time)
       IN  \/ /\ best = {}
              /\ mgr_result' =
                     [NoManagerResult EXCEPT
                         !.op = "best_broadcaster_for_token", !.status = "None",
                         !.token = token, !.current_time = current_time]
           \/ \E p \in best :
                  mgr_result' =
                      [op |-> "best_broadcaster_for_token", status |-> "Some",
                       token |-> token, current_time |-> current_time,
                       address |-> p[1].railgun_address,
                       per_unit_gas |-> p[2].fee_per_unit_gas,
                       reliability |-> p[2].reliability]
    /\ UNCHANGED <<broadcasters, whitelisted_broadcasters, starter>>
    /\ UNCHANGED OutsideManager

ManagerNext ==
    \/ \E whitelisted \in Whitelists : NewManager(whitelisted)
    \/ Start
    \/ Subscribed
    \/ SubscribeFails
    \/ \E msg \in WakuMessages : StreamMessage(msg)
    \/ StreamEnds
    \/ Resubscribe
    \/ \E token \in FeeTokens, current_time \in 0..1 :
           BestBroadcasterForToken(token, current_time)

(* ------------------------- Pool-Mix relayer selection -------------------- *)

\* Chains of the relayers and of the queries: mainnet and one other chain.
RelayerChains == {1, 10}

\* Service fees in hundredths of a percent point (0.10, 0.43 and 0.53).
ServiceFees == {10, 43, 53}

\* The relayers a state may hold: on mainnet every combination of price list,
\* stake and fee, and one relayer of the other chain.
Relayers ==
    [chain_id : {1}, eth_prices : {{}, {"DAI"}}, stake_balance : 0..MaxStake,
     service_fee_percent : ServiceFees]
        \cup [chain_id : {10}, eth_prices : {{"DAI"}}, stake_balance : {MaxStake},
              service_fee_percent : {10}]

RelayerLists == UNION {[1..n -> Relayers] : n \in 0..MaxRelayers}

\* Option<&str>: the empty sequence for None.
TokenSymbols == {<<>>, <<"DAI">>}

\* (min_fee, max_fee) of the chain, in hundredths.
min_fee(chain_id) == IF chain_id = 1 THEN 33 ELSE 1

max_fee(chain_id) == IF chain_id = 1 THEN 53 ELSE 30

\* The weight of a relayer, times (max_fee - min_fee)^2:
\* stake_balance * (1 - fee_diff^2 / fee_range^2), and 0 from max_fee on.
weight(r, chain_id) ==
    LET fee_range == max_fee(chain_id) - min_fee(chain_id)
        fee_diff == IF r.service_fee_percent > min_fee(chain_id)
                    THEN r.service_fee_percent - min_fee(chain_id) ELSE 0
    IN  IF r.service_fee_percent >= max_fee(chain_id) THEN 0
        ELSE r.stake_balance * (fee_range * fee_range - fee_diff * fee_diff)

\* The indices, in self.relayers, of the relayers of the chain that list the
\* token, in order.
chain_relayers(all, chain_id, token_symbol) ==
    SelectSeq([i \in 1..Len(all) |-> i],
              LAMBDA i : /\ all[i].chain_id = chain_id
                         /\ token_symbol # <<>>
                               => token_symbol[1] \in all[i].eth_prices)

\* weights[1] + ... + weights[n]
RECURSIVE cumulative_weight(_, _)
cumulative_weight(weights, n) ==
    IF n = 0 THEN 0 ELSE cumulative_weight(weights, n - 1) + weights[n]

\* pick_relayer: the index in self.relayers of the relayer returned, 0 for
\* None.  rng.random::<f64>() is the fraction rng / RNG_STEPS, so that
\* cumulative >= target reads cumulative * RNG_STEPS >= rng * total_weight.
pick_relayer(all, chain_id, token_symbol, rng) ==
    LET candidates == chain_relayers(all, chain_id, token_symbol)
        weights == [i \in 1..Len(candidates) |-> weight(all[candidates[i]], chain_id)]
        total_weight == cumulative_weight(weights, Len(weights))
        reached == {i \in 1..Len(weights) :
                       cumulative_weight(weights, i) * RNG_STEPS
                           >= rng * total_weight}
    IN  IF candidates = <<>> THEN 0
        ELSE IF total_weight <= 0 THEN candidates[1]
        ELSE IF reached # {}
        THEN candidates[CHOOSE i \in reached : \A j \in reached : i <= j]
        ELSE candidates[Len(candidates)]

NoPick == [status |-> "none", chain_id |-> 0, token_symbol |-> <<>>, rng |-> 0,
           index |-> 0]

RelayerInit ==
    /\ tc_relayers = <<>>
    /\ picked = NoPick

\* BroadcasterIndexer::new: no relayer yet.
NewBroadcasterIndexer ==
    /\ tc_relayers # <<>> \/ picked # NoPick
    /\ tc_relayers' = <<>>
    /\ picked' = NoPick
    /\ UNCHANGED OutsideRelayer

\* BroadcasterIndexer::from_state on the indexer as constructed.
RelayersFromState ==
    /\ tc_relayers = <<>> /\ picked = NoPick
    /\ \E all \in RelayerLists : tc_relayers' = all
    /\ UNCHANGED picked
    /\ UNCHANGED OutsideRelayer

PickRelayer(chain_id, token_symbol, rng) ==
    /\ picked' =
           [status |-> IF pick_relayer(tc_relayers, chain_id, token_symbol, rng) = 0
                       THEN "None" ELSE "Some",
            chain_id |-> chain_id, token_symbol |-> token_symbol, rng |-> rng,
            index |-> pick_relayer(tc_relayers, chain_id, token_symbol, rng)]
    /\ UNCHANGED tc_relayers
    /\ UNCHANGED OutsideRelayer

RelayerNext ==
    \/ NewBroadcasterIndexer
    \/ RelayersFromState
    \/ \E chain_id \in RelayerChains, token_symbol \in TokenSymbols,
          rng \in 0..(RNG_STEPS - 1) :
           PickRelayer(chain_id, token_symbol, rng)

(* ----------------------- Pool-Mix broadcast preparation ------------------ *)

\* The pools withdrawn from: their chain, their asset (the empty sequence for
\* Asset::Native, the symbol for Asset::Erc20) and their denomination.
Pools == [chain_id : RelayerChains, asset : TokenSymbols, amount_wei : {150, 10000}]

\* What provider.estimate_gas and provider.get_gas_price answer, and the ETH
\* prices (tokens per ETH) a relayer lists.
GasLimits == {2}

GasPrices == {5, 10}

EthPrices == {0, 1, 3}

\* The relayer lists a provider is restored with.
PreparedRelayerLists == UNION {[1..n -> Relayers] : n \in 0..MaxPreparedRelayers}

\* compute_service_fee: amount_wei * fee_percent / 100.0 as u128, the fee
\* percent being counted in hundredths.
compute_service_fee(amount_wei, fee_percent) ==
    (amount_wei * fee_percent) \div 10000

\* estimate_gas_cost_wei, the two RPC calls having answered.
estimate_gas_cost_wei(gas_limit, gas_price) == gas_limit * gas_price

\* (gas_cost_wei as f64 / eth_price) as u128
gas_cost_in_token(gas_cost_wei, eth_price) == gas_cost_wei \div eth_price

\* The fee of the final proof.
total_fee(relayer_fee, gas_cost) == relayer_fee + gas_cost

NoPrepared ==
    [pc |-> "idle", status |-> "None",
     pool |-> [chain_id |-> 0, asset |-> <<>>, amount_wei |-> 0],
     relayer |-> 0, relayer_fee |-> 0, gas_cost_in_token |-> 0, fee |-> 0]

PrepareInit == prepared = NoPrepared

\* BroadcastProvider::new.
NewBroadcastProvider ==
    /\ prepared.pc \in {"idle", "returned"}
    /\ tc_relayers # <<>> \/ prepared # NoPrepared
    /\ tc_relayers' = <<>>
    /\ prepared' = NoPrepared
    /\ UNCHANGED picked
    /\ UNCHANGED OutsidePrepare

\* BroadcastProvider::from_state on the provider as constructed.
BroadcastProviderFromState ==
    /\ tc_relayers = <<>> /\ prepared = NoPrepared
    /\ \E all \in PreparedRelayerLists : tc_relayers' = all
    /\ UNCHANGED <<prepared, picked>>
    /\ UNCHANGED OutsidePrepare

\* prepare_broadcast up to the dummy withdraw: the relayer is picked and its
\* service fee computed.
PrepareBroadcast(pool, rng) ==
    /\ prepared.pc \in {"idle", "returned"}
    /\ LET relayer == pick_relayer(tc_relayers, pool.chain_id, pool.asset, rng)
       IN  prepared' =
               IF relayer = 0
               THEN [NoPrepared EXCEPT !.pc = "returned", !.pool = pool,
                                       !.status = "NoRelayerAvailable"]
               ELSE [NoPrepared EXCEPT
                        !.pc = "withdraw", !.pool = pool, !.relayer = relayer,
                        !.relayer_fee =
                            compute_service_fee(
                                pool.amount_wei,
                                tc_relayers[relayer].service_fee_percent)]
    /\ UNCHANGED <<tc_relayers, picked>>
    /\ UNCHANGED OutsidePrepare

\* self.inner.withdraw with the service fee returns the dummy transaction, or
\* fails.
DummyWithdrawReturns(ok) ==
    /\ prepared.pc = "withdraw"
    /\ prepared' = IF ok THEN [prepared EXCEPT !.pc = "estimate"]
                   ELSE [prepared EXCEPT !.pc = "returned", !.status = "Provider"]
    /\ UNCHANGED <<tc_relayers, picked>>
    /\ UNCHANGED OutsidePrepare

\* estimate_gas or get_gas_price fails.
GasEstimationFails ==
    /\ prepared.pc = "estimate"
    /\ prepared' = [prepared EXCEPT !.pc = "returned", !.status = "GasEstimation"]
    /\ UNCHANGED <<tc_relayers, picked>>
    /\ UNCHANGED OutsidePrepare

\* The gas cost is estimated and converted to the pool's token at the price
\* the relayer lists; the fee of the final proof is computed.
GasEstimated(gas_limit, gas_price, eth_price) ==
    /\ prepared.pc = "estimate"
    /\ prepared' =
           IF prepared.pool.asset = <<>>
           THEN [prepared EXCEPT
                    !.pc = "calldata",
                    !.gas_cost_in_token = estimate_gas_cost_wei(gas_limit, gas_price),
                    !.fee = total_fee(prepared.relayer_fee,
                                      estimate_gas_cost_wei(gas_limit, gas_price))]
           ELSE IF \/ prepared.pool.asset[1]
                          \notin tc_relayers[prepared.relayer].eth_prices
                   \/ eth_price <= 0
           THEN [prepared EXCEPT !.pc = "returned", !.status = "GasEstimation"]
           ELSE [prepared EXCEPT
                    !.pc = "calldata",
                    !.gas_cost_in_token =
                        gas_cost_in_token(estimate_gas_cost_wei(gas_limit, gas_price),
                                          eth_price),
                    !.fee = total_fee(
                                prepared.relayer_fee,
                                gas_cost_in_token(
                                    estimate_gas_cost_wei(gas_limit, gas_price),
                                    eth_price))]
    /\ UNCHANGED <<tc_relayers, picked>>
    /\ UNCHANGED OutsidePrepare

\* self.inner.withdraw_calldata with the final fee returns the call, or fails.
WithdrawCalldataReturns(ok) ==
    /\ prepared.pc = "calldata"
    /\ prepared' = [prepared EXCEPT !.pc = "returned",
                                    !.status = IF ok THEN "Ok" ELSE "Provider"]
    /\ UNCHANGED <<tc_relayers, picked>>
    /\ UNCHANGED OutsidePrepare

PrepareNext ==
    \/ NewBroadcastProvider
    \/ BroadcastProviderFromState
    \/ \E pool \in Pools, rng \in 0..(RNG_STEPS - 1) : PrepareBroadcast(pool, rng)
    \/ \E ok \in BOOLEAN : DummyWithdrawReturns(ok)
    \/ GasEstimationFails
    \/ \E gas_limit \in GasLimits, gas_price \in GasPrices, eth_price \in EthPrices :
           GasEstimated(gas_limit, gas_price, eth_price)
    \/ \E ok \in BOOLEAN : WithdrawCalldataReturns(ok)

(* --------------- Pool-Mix broadcast provider: await_withdraw -------------- *)

\* Seconds a request to the relayer can take on top of the sleep.
Latencies == 0..MaxLatency

\* The targets the crate is built for: the wasm module binds broadcast.
BuildTargets == {"native", "wasm32"}

\* JobStatusResponse as the relayer answers GET /v1/jobs/{id}; tx_hash 0 is
\* None.  http_ok FALSE is a request that failed or a body that is no
\* JobStatusResponse.
JobStatuses == {"QUEUED", "SENT", "CONFIRMED", "FAILED"}

JobResponses ==
    [http_ok : {TRUE}, status : JobStatuses, tx_hash : {0, 7}]
        \cup {[http_ok |-> FALSE, status |-> "None", tx_hash |-> 0]}

\* job.tx_hash.unwrap_or_default(): the zero hash for None.
unwrap_or_default(tx_hash) == tx_hash

\* The match on job.status.
job_outcome_AnyStatusEnds(status) ==
    IF status = "FAILED" THEN "JobFailed" ELSE "Ok"

job_outcome(status) ==
    CASE status = "CONFIRMED" -> "Ok"
      [] status = "FAILED" -> "JobFailed"
      [] OTHER -> "Continue"

NoJob ==
    [pc |-> "idle", target |-> "native", elapsed |-> 0, checked_at |-> -1,
     polled_at |-> -1, prev_polled_at |-> -1, status |-> "None", tx_hash |-> 0,
     result |-> [status |-> "None", tx_hash |-> 0]]

JobInit == job = NoJob

\* broadcast: the job is submitted and await_withdraw starts its clock with
\* std::time::Instant::now(), which panics on wasm32-unknown-unknown.
AwaitWithdraw(target) ==
    /\ job.pc \in {"idle", "done"}
    /\ IF target = "wasm32"
       THEN job' = [NoJob EXCEPT !.pc = "done", !.target = target,
                                 !.result = [status |-> "Panic", tx_hash |-> 0]]
       ELSE job' = [NoJob EXCEPT !.pc = "check", !.target = target]
    /\ UNCHANGED OutsideJob

\* The head of the loop: the timeout check.
JobCheckTimeout ==
    /\ job.pc = "check"
    /\ IF job.elapsed > JOB_TIMEOUT
       THEN job' = [job EXCEPT !.pc = "done", !.checked_at = job.elapsed,
                               !.result = [status |-> "JobTimeout", tx_hash |-> 0]]
       ELSE job' = [job EXCEPT !.pc = "sleep", !.checked_at = job.elapsed]
    /\ UNCHANGED OutsideJob

\* sleep(JOB_POLL_INTERVAL), after which the GET is sent.
JobSleep ==
    /\ job.pc = "sleep"
    /\ job' = [job EXCEPT !.pc = "get",
                          !.elapsed = job.elapsed + JOB_POLL_INTERVAL,
                          !.prev_polled_at = job.polled_at,
                          !.polled_at = job.elapsed + JOB_POLL_INTERVAL]
    /\ UNCHANGED OutsideJob

\* The GET returns after `latency` seconds and its status is matched.
JobPolled(latency, response) ==
    /\ job.pc = "get"
    /\ LET at == job.elapsed + latency
       IN  IF ~response.http_ok
           THEN job' = [job EXCEPT !.pc = "done", !.elapsed = at,
                                   !.result = [status |-> "Http", tx_hash |-> 0]]
           ELSE LET outcome == job_outcome(response.status)
                    seen == [job EXCEPT !.elapsed = at,
                                        !.status = response.status,
                                        !.tx_hash = response.tx_hash]
                IN  IF outcome = "Continue"
                    THEN job' = [seen EXCEPT !.pc = "check"]
                    ELSE job' = [seen EXCEPT
                                    !.pc = "done",
                                    !.result =
                                        [status |-> outcome,
                                         tx_hash |->
                                             IF outcome = "Ok"
                                             THEN unwrap_or_default(response.tx_hash)
                                             ELSE 0]]
    /\ UNCHANGED OutsideJob

JobNext ==
    \/ \E target \in BuildTargets : AwaitWithdraw(target)
    \/ JobCheckTimeout
    \/ JobSleep
    \/ \E latency \in Latencies, response \in JobResponses :
           JobPolled(latency, response)

(* ------------------- MerkleTree: snapshot and restoration ----------------- *)

\* A tree, the snapshot taken of it and the tree restored from the snapshot.
NoSnapshot ==
    [original |-> MerkleTree_new(0), stage |-> "none",
     snapshot |-> MerkleTree_state(MerkleTree_new(0)),
     restored |-> MerkleTree_new(0), clean |-> TRUE]

SnapshotInit == snap = NoSnapshot

\* tree.insert_leaves_raw(leaves, start) on a tree not yet snapshotted.
SnapshotInsertLeavesRaw(leaves, start) ==
    /\ snap.stage = "none"
    /\ start + Len(leaves) <= TOTAL_LEAVES
    /\ snap' = [snap EXCEPT !.original = insert_leaves_raw(@, leaves, start)]
    /\ UNCHANGED OutsideSnapshot

\* tree.rebuild() on a tree not yet snapshotted.
SnapshotRebuild ==
    /\ snap.stage = "none"
    /\ snap.original.dirty_parents # {}
    /\ snap' = [snap EXCEPT !.original = rebuild(@)]
    /\ UNCHANGED OutsideSnapshot

\* let state = tree.state(); let restored = MerkleTree::from_state(state).
SnapshotRestore ==
    /\ snap.stage = "none"
    /\ LET state == MerkleTree_state(snap.original)
       IN  snap' = [snap EXCEPT !.stage = "restored",
                                !.snapshot = state,
                                !.restored = MerkleTree_from_state(state),
                                !.clean = (snap.original.dirty_parents = {})]
    /\ UNCHANGED OutsideSnapshot

\* rebuild() on the tree and on the restored tree.
SnapshotRebuildBoth ==
    /\ snap.stage = "restored"
    /\ snap' = [snap EXCEPT !.stage = "rebuilt",
                            !.original = rebuild(@),
                            !.restored = rebuild(@)]
    /\ UNCHANGED OutsideSnapshot

\* Both trees are dropped and a new tree is made.
SnapshotReset ==
    /\ snap.stage # "none"
    /\ snap' = NoSnapshot
    /\ UNCHANGED OutsideSnapshot

SnapshotNext ==
    \/ \E leaves \in LeafBatches, start \in 0..(TOTAL_LEAVES - 1) :
           SnapshotInsertLeavesRaw(leaves, start)
    \/ SnapshotRebuild
    \/ SnapshotRestore
    \/ SnapshotRebuildBoth
    \/ SnapshotReset

(* --------------------------- Railgun base37 ------------------------------- *)

CHARSET ==
    <<" ", "0", "1", "2", "3", "4", "5", "6", "7", "8", "9",
      "a", "b", "c", "d", "e", "f", "g", "h", "i", "j", "k", "l", "m",
      "n", "o", "p", "q", "r", "s", "t", "u", "v", "w", "x", "y", "z">>

BASE == Len(CHARSET)

\* One more than the largest value of the encoding's integer.
ENCODED_MODULUS == 256 ^ ENCODED_BYTES

\* Characters the texts are made of: some of the charset and one outside it.
TextChars == {" ", "0", "a", "z", "H"}

Texts == UNION {[1..n -> TextChars] : n \in 0..MaxTextLen}

\* CHARSET.iter().position(|&b| b == c as u8): 0 for no position, else the
\* index plus one.
position(c) ==
    IF \E i \in 1..Len(CHARSET) : CHARSET[i] = c
    THEN CHOOSE i \in 1..Len(CHARSET) : CHARSET[i] = c
    ELSE 0

\* value.to_be_bytes() and from_be_bytes.
RECURSIVE to_be_bytes_from(_, _)
to_be_bytes_from(value, n) ==
    IF n = 0 THEN <<>>
    ELSE Append(to_be_bytes_from(value \div 256, n - 1), value % 256)

to_be_bytes(value) == to_be_bytes_from(value, ENCODED_BYTES)

RECURSIVE from_be_bytes_upto(_, _)
from_be_bytes_upto(bytes, n) ==
    IF n = 0 THEN 0
    ELSE from_be_bytes_upto(bytes, n - 1) * 256 + bytes[n]

from_be_bytes(bytes) == from_be_bytes_upto(bytes, Len(bytes))

\* The loop of encode over text.chars(), from character i with `value` so far.
RECURSIVE encode_from(_, _, _)
encode_from(text, i, value) ==
    IF i > Len(text) THEN [status |-> "Ok", bytes |-> to_be_bytes(value)]
    ELSE LET idx == position(text[i])
         IN  IF idx = 0
             THEN [status |-> "InvalidCharacter", bytes |-> <<>>]
             ELSE IF value * BASE >= ENCODED_MODULUS
                     \/ value * BASE + (idx - 1) >= ENCODED_MODULUS
                  THEN [status |-> "OutputTooLong", bytes |-> <<>>]
                  ELSE encode_from(text, i + 1, value * BASE + (idx - 1))

\* encode(text).
encode(text) == encode_from(text, 1, 0)

\* The loop of decode: the characters of `value`, least significant first.
RECURSIVE decode_digits(_)
decode_digits(value) ==
    IF value > 0
    THEN <<CHARSET[(value % BASE) + 1]>> \o decode_digits(value \div BASE)
    ELSE <<>>

\* result.reverse().
reverse(s) == [i \in 1..Len(s) |-> s[Len(s) + 1 - i]]

\* decode that leaves the characters in the order the loop pushed them.
decode_NoReverse(bytes) == decode_digits(from_be_bytes(bytes))

\* decode(bytes).
decode(bytes) == reverse(decode_digits(from_be_bytes(bytes)))

NoCodec ==
    [stage |-> "none", text |-> <<>>,
     encoded |-> [status |-> "None", bytes |-> <<>>], decoded |-> <<>>]

CodecInit == codec = NoCodec

\* let encoded = encode(text).
Encode ==
    /\ codec.stage = "encoded" => codec.encoded.status # "Ok"
    /\ \E text \in Texts :
           codec' = [NoCodec EXCEPT !.stage = "encoded", !.text = text,
                                    !.encoded = encode(text)]
    /\ UNCHANGED OutsideCodec

\* let decoded = decode(&encoded).
Decode ==
    /\ codec.stage = "encoded"
    /\ codec.encoded.status = "Ok"
    /\ codec' = [codec EXCEPT !.stage = "decoded",
                              !.decoded = decode(codec.encoded.bytes)]
    /\ UNCHANGED OutsideCodec

CodecNext == Encode \/ Decode

(* --------------------------- Pool-Mix note string ------------------------- *)

HexDigits ==
    <<"0", "1", "2", "3", "4", "5", "6", "7", "8", "9", "a", "b", "c", "d", "e", "f">>

\* Bytes and byte arrays of the notes.
NoteByteValues == {1, 171, 255}

NoteFields == [1..NOTE_FIELD_BYTES -> NoteByteValues]

\* Characters of the symbols and amounts, and the strings made of them.
SymbolStrings == UNION {[1..n -> {"E", "-"}] : n \in 0..MaxSymbolLen}

AmountStrings == UNION {[1..n -> {"1", "-"}] : n \in 0..MaxSymbolLen}

NoteChainIds == {0, 1, 10}

Notes ==
    [nullifier : NoteFields, secret : NoteFields, symbol : SymbolStrings,
     amount : AmountStrings, chain_id : NoteChainIds]

\* preimage with the secret before the nullifier.
preimage_SecretFirst(n) == n.secret \o n.nullifier

\* Note::preimage(): the nullifier, then the secret.
preimage(n) == n.nullifier \o n.secret

\* hex::encode.
RECURSIVE hex_encode(_)
hex_encode(bytes) ==
    IF bytes = <<>> THEN <<>>
    ELSE <<HexDigits[(bytes[1] \div 16) + 1], HexDigits[(bytes[1] % 16) + 1]>>
             \o hex_encode(Tail(bytes))

\* The value of a hex digit of either case, -1 for any other character.
hex_value(c) ==
    IF \E i \in 1..16 : HexDigits[i] = c
    THEN (CHOOSE i \in 1..16 : HexDigits[i] = c) - 1
    ELSE CASE c = "A" -> 10 [] c = "B" -> 11 [] c = "C" -> 12
           [] c = "D" -> 13 [] c = "E" -> 14 [] c = "F" -> 15
           [] OTHER -> -1

\* hex::decode: an error on an odd length or on a character that is no hex
\* digit.
hex_decode(str) ==
    IF Len(str) % 2 # 0 \/ \E i \in 1..Len(str) : hex_value(str[i]) < 0
    THEN [ok |-> FALSE, bytes |-> <<>>]
    ELSE [ok |-> TRUE,
          bytes |-> [i \in 1..(Len(str) \div 2) |->
                        hex_value(str[2 * i - 1]) * 16 + hex_value(str[2 * i])]]

\* The Display of a u64.
RECURSIVE u64_to_string(_)
u64_to_string(v) ==
    IF v < 10 THEN <<HexDigits[v + 1]>>
    ELSE u64_to_string(v \div 10) \o <<HexDigits[(v % 10) + 1]>>

IsDecDigit(c) == \E i \in 1..10 : HexDigits[i] = c

RECURSIVE digits_value(_, _)
digits_value(str, n) ==
    IF n = 0 THEN 0
    ELSE digits_value(str, n - 1) * 10 + hex_value(str[n])

\* str.parse::<u64>(): an optional plus sign and at least one decimal digit.
parse_u64(str) ==
    LET body == IF str # <<>> /\ str[1] = "+" THEN Tail(str) ELSE str
    IN  IF body = <<>> \/ \E i \in 1..Len(body) : ~IsDecDigit(body[i])
        THEN [ok |-> FALSE, value |-> 0]
        ELSE [ok |-> TRUE, value |-> digits_value(body, Len(body))]

\* impl Display for Note.
Note_to_string(n) ==
    <<"t", "o", "r", "n", "a", "d", "o", "-">> \o n.symbol \o <<"-">> \o n.amount
        \o <<"-">> \o u64_to_string(n.chain_id) \o <<"-", "0", "x">>
        \o hex_encode(preimage(n))

\* s.splitn(n, '-'): at most n parts, the last one the rest of the string.
RECURSIVE splitn(_, _)
splitn(s, n) ==
    IF n = 1 \/ ~\E i \in 1..Len(s) : s[i] = "-" THEN <<s>>
    ELSE LET at == CHOOSE i \in 1..Len(s) :
                       s[i] = "-" /\ \A j \in 1..(i - 1) : s[j] # "-"
         IN  <<SubSeq(s, 1, at - 1)>> \o splitn(SubSeq(s, at + 1, Len(s)), n - 1)

\* part.strip_prefix("0x").unwrap_or(part).
strip_prefix_0x(part) ==
    IF Len(part) >= 2 /\ part[1] = "0" /\ part[2] = "x"
    THEN SubSeq(part, 3, Len(part))
    ELSE part

NoNote ==
    [nullifier |-> <<>>, secret |-> <<>>, symbol |-> <<>>, amount |-> <<>>,
     chain_id |-> 0]

\* impl FromStr for Note.
Note_from_str(s) ==
    LET parts == splitn(s, 5)
    IN  IF Len(parts) # 5 \/ parts[1] # <<"t", "o", "r", "n", "a", "d", "o">>
        THEN [status |-> "InvalidFormat", note |-> NoNote]
        ELSE
          LET chain_id == parse_u64(parts[4])
              bytes == hex_decode(strip_prefix_0x(parts[5]))
          IN  IF ~chain_id.ok THEN [status |-> "InvalidChainId", note |-> NoNote]
              ELSE IF ~bytes.ok THEN [status |-> "InvalidHex", note |-> NoNote]
              ELSE IF Len(bytes.bytes) # 2 * NOTE_FIELD_BYTES
              THEN [status |-> "InvalidFormat", note |-> NoNote]
              ELSE [status |-> "Ok",
                    note |-> [nullifier |-> SubSeq(bytes.bytes, 1, NOTE_FIELD_BYTES),
                              secret |-> SubSeq(bytes.bytes, NOTE_FIELD_BYTES + 1,
                                                2 * NOTE_FIELD_BYTES),
                              symbol |-> parts[2],
                              amount |-> parts[3],
                              chain_id |-> chain_id.value]]

NoNoteString ==
    [stage |-> "none", note |-> NoNote, encoded |-> <<>>,
     decoded |-> [status |-> "None", note |-> NoNote]]

NoteStringInit == notestr = NoNoteString

\* let encoded = note.to_string().
NoteToString ==
    /\ notestr.stage \in {"none", "decoded"}
    /\ \E n \in Notes :
           notestr' = [NoNoteString EXCEPT !.stage = "encoded", !.note = n,
                                           !.encoded = Note_to_string(n)]
    /\ UNCHANGED OutsideNoteString

\* let decoded_note = Note::from_str(&encoded).
NoteFromStr ==
    /\ notestr.stage = "encoded"
    /\ notestr' = [notestr EXCEPT !.stage = "decoded",
                                  !.decoded = Note_from_str(notestr.encoded)]
    /\ UNCHANGED OutsideNoteString

NoteStringNext == NoteToString \/ NoteFromStr

(* ------------------------------ TxidTreeSet ------------------------------- *)

\* Operations are numbered by their place in the aggregator's canonical
\* order, from 1; the TxID leaf of an operation is its number.
Ops == 1..MaxOps

TxidLeafHash_new(op) == op

\* The root the aggregator holds for `tree` at leaf `index`: the tree over the
\* canonical leaves tree * TOTAL_LEAVES .. tree * TOTAL_LEAVES + index.
AggregatorRoot(tree, index) ==
    root(rebuild(insert_leaves_raw(
        MerkleTree_new(tree),
        [i \in 1..(index + 1) |-> TxidLeafHash_new(tree * TOTAL_LEAVES + i)],
        0)))

\* The aggregator's answer to ppoi_validate_txid_merkleroot.
AggregatorValidates(tree, index, merkleroot) ==
    /\ tree * TOTAL_LEAVES + index + 1 <= MaxOps
    /\ merkleroot = AggregatorRoot(tree, index)

\* TxidTreeSet::new.
TxidTreeSet_new ==
    [trees |-> EmptyMap, pending |-> <<>>, txid_to_utxo_pos |-> EmptyMap,
     txid_to_txid_pos |-> EmptyMap, validated_index |-> 0]

\* (op.utxo_tree_out, op.utxo_out_start_index): operation k of the chain put
\* its commitments at position k - 1 of UTXO tree 0.
utxo_pos(op) == <<0, op - 1>>

\* TxidTreeSet::reset(): trees, pending and txid_to_utxo_pos are cleared and
\* validated_index is zeroed; txid_to_txid_pos is not touched.
TxidTreeSet_reset(set) ==
    [set EXCEPT !.trees = EmptyMap, !.pending = <<>>,
                !.txid_to_utxo_pos = EmptyMap, !.validated_index = 0]

\* TxidIndexer::txid_position(txid): txid_to_txid_pos.get(txid).
txid_position(set, txid) ==
    IF txid \in DOMAIN set.txid_to_txid_pos THEN set.txid_to_txid_pos[txid]
    ELSE <<>>

\* TxidIndexer::utxo_position(txid): txid_to_utxo_pos.get(txid).
utxo_position(set, txid) ==
    IF txid \in DOMAIN set.txid_to_utxo_pos THEN set.txid_to_utxo_pos[txid]
    ELSE <<>>

\* self.trees.values().map(|t| t.leaves_len()).sum().
RECURSIVE SumLeaves(_, _)
SumLeaves(trees, numbers) ==
    IF numbers = {} THEN 0
    ELSE LET n == MinOf(numbers)
         IN  leaves_len(trees[n]) + SumLeaves(trees, numbers \ {n})

current_total(trees) == SumLeaves(trees, DOMAIN trees)

MaxOf(S) == CHOOSE x \in S : \A y \in S : x >= y

\* pending.drain(..drain_count) taken from the back of the queue.
drain_FromBack(pending, drain_count) ==
    [drained |-> [i \in 1..drain_count |-> pending[Len(pending) + 1 - i]],
     pending |-> SubSeq(pending, 1, Len(pending) - drain_count)]

\* self.pending.drain(..drain_count).collect().
drain(pending, drain_count) ==
    [drained |-> SubSeq(pending, 1, drain_count),
     pending |-> SubSeq(pending, drain_count + 1, Len(pending))]

\* The loop of update over the drained operations, from operation i.
RECURSIVE InsertDrained(_, _, _, _)
InsertDrained(set, drained, i, total) ==
    IF i > Len(drained) THEN set
    ELSE
      LET op == drained[i]
          tree_number == total \div TOTAL_LEAVES
          leaf_position == total % TOTAL_LEAVES
          tree == IF tree_number \in DOMAIN set.trees THEN set.trees[tree_number]
                  ELSE MerkleTree_new(tree_number)
      IN  InsertDrained(
              [set EXCEPT
                  !.trees = Put(@, tree_number,
                                insert_leaves_raw(tree, <<TxidLeafHash_new(op)>>,
                                                  leaf_position)),
                  !.txid_to_txid_pos = Put(@, op, <<tree_number, leaf_position>>),
                  !.txid_to_utxo_pos = Put(@, op, utxo_pos(op))],
              drained, i + 1, total + 1)

NoTriple == [tree |-> -1, index |-> -1, merkleroot |-> 0]

\* TxidTreeSet::update().  `validated` is the answer of validated_txid and
\* `transport_ok` tells whether the validate_txid_merkleroot call gets an
\* answer.  The outcome holds the set as update leaves it.
TxidTreeSet_update(set, validated, transport_ok) ==
    IF ~validated.ok
    THEN [set |-> set, status |-> "PoiClient", to_drain |-> 0, drained |-> <<>>,
          asked |-> NoTriple, answer |-> FALSE]
    ELSE
      LET current == current_total(set.trees)
          target_total ==
              (validated.index \div TOTAL_LEAVES) * TOTAL_LEAVES
                  + (validated.index % TOTAL_LEAVES) + 1
          to_drain == IF target_total > current THEN target_total - current ELSE 0
      IN  IF to_drain = 0
          THEN [set |-> set, status |-> "Ok", to_drain |-> 0, drained |-> <<>>,
                asked |-> NoTriple, answer |-> FALSE]
          ELSE
            LET drain_count == IF to_drain < Len(set.pending) THEN to_drain
                               ELSE Len(set.pending)
                taken == drain(set.pending, drain_count)
                inserted == InsertDrained([set EXCEPT !.pending = taken.pending],
                                          taken.drained, 1, current)
                rebuilt == [inserted EXCEPT !.trees = RebuildAll(@)]
                total == current + drain_count
            IN  IF DOMAIN rebuilt.trees = {}
                THEN [set |-> [rebuilt EXCEPT !.validated_index = total],
                      status |-> "Ok", to_drain |-> to_drain,
                      drained |-> taken.drained, asked |-> NoTriple,
                      answer |-> FALSE]
                ELSE
                  LET tree_number == MaxOf(DOMAIN rebuilt.trees)
                      tree == rebuilt.trees[tree_number]
                      asked == [tree |-> tree_number,
                                index |-> leaves_len(tree) - 1,
                                merkleroot |-> root(tree)]
                      answer == AggregatorValidates(asked.tree, asked.index,
                                                    asked.merkleroot)
                  IN  IF ~transport_ok
                      THEN [set |-> rebuilt, status |-> "PoiClient",
                            to_drain |-> to_drain, drained |-> taken.drained,
                            asked |-> asked, answer |-> FALSE]
                      ELSE IF ~answer
                      THEN [set |-> rebuilt, status |-> "RootMismatch",
                            to_drain |-> to_drain, drained |-> taken.drained,
                            asked |-> asked, answer |-> FALSE]
                      ELSE [set |-> [rebuilt EXCEPT !.validated_index = total],
                            status |-> "Ok", to_drain |-> to_drain,
                            drained |-> taken.drained, asked |-> asked,
                            answer |-> TRUE]

NoUpdate ==
    [status |-> "None", to_drain |-> 0, drained |-> <<>>, asked |-> NoTriple,
     answer |-> FALSE, before |-> 0]

TxidInit ==
    /\ txid_set = TxidTreeSet_new
    /\ txid_result = NoUpdate
    /\ txid_log = [enqueued |-> <<>>, accepted |-> {}]
    /\ agg_validated = 0

\* The aggregator validates the next operation of its canonical order.
AggregatorAdvances ==
    /\ agg_validated < MaxOps
    /\ agg_validated' = agg_validated + 1
    /\ UNCHANGED <<txid_set, txid_result, txid_log>>
    /\ UNCHANGED OutsideTxid

\* txid_set.enqueue(op, block), in the order the syncer delivers: the
\* canonical order, or with an operation ahead of its predecessor.
Enqueue(op) ==
    /\ \A i \in 1..Len(txid_log.enqueued) : txid_log.enqueued[i] # op
    /\ op <= Len(txid_log.enqueued) + 2
    /\ txid_set' = [txid_set EXCEPT !.pending = Append(@, op)]
    /\ txid_log' = [txid_log EXCEPT !.enqueued = Append(@, op)]
    /\ txid_result' = NoUpdate
    /\ UNCHANGED agg_validated
    /\ UNCHANGED OutsideTxid

\* txid_set.update().
Update(status_ok, transport_ok) ==
    LET validated == [ok |-> status_ok /\ agg_validated > 0,
                      index |-> agg_validated - 1]
        outcome == TxidTreeSet_update(txid_set, validated, transport_ok)
    IN  /\ txid_set' = outcome.set
        /\ txid_result' =
               [status |-> outcome.status, to_drain |-> outcome.to_drain,
                drained |-> outcome.drained, asked |-> outcome.asked,
                answer |-> outcome.answer,
                before |-> current_total(txid_set.trees)]
        /\ txid_log' =
               [txid_log EXCEPT
                   !.accepted = IF outcome.answer THEN @ \cup {outcome.asked} ELSE @]
        /\ UNCHANGED agg_validated
        /\ UNCHANGED OutsideTxid

\* txid_set.reset(): the positions of the TxIDs in the TxID tree are kept.
TxidReset ==
    /\ txid_log.enqueued # <<>>
    /\ txid_set' = TxidTreeSet_reset(txid_set)
    /\ txid_result' = NoUpdate
    /\ txid_log' = [enqueued |-> <<>>, accepted |-> {}]
    /\ UNCHANGED agg_validated
    /\ UNCHANGED OutsideTxid

TxidNext ==
    \/ AggregatorAdvances
    \/ \E op \in Ops : Enqueue(op)
    \/ \E status_ok \in BOOLEAN, transport_ok \in BOOLEAN :
           Update(status_ok, transport_ok)
    \/ TxidReset

(* --------------------------- PendingPoiSubmitter -------------------------- *)

PoiTxids == 1..NumTxids

\* What the TxID indexer knows of a TxID: nothing, its TxID position only,
\* or its TxID position and its UTXO position.
KnownPositions == {"none", "txid", "both"}

\* How the awaited calls of one entry go: the trees are there or one is
\* missing, the inputs build or not, the prover proves or not, and
\* ppoi_submit_transact_proof answers Ok, a null result or an error.
EntryAnswers ==
    {"submitted", "null_result", "missing_tree", "inputs_error", "prover_error",
     "submit_error"}

\* The answers to the calls process makes: one for each entry it does not
\* skip.
AnswersFor(pending, known) ==
    {answers \in [1..MaxRegistered -> EntryAnswers] :
        \A id \in 1..MaxRegistered :
            (\A k \in 1..Len(pending) :
                 pending[k].id = id => known[pending[k].txid] # "both")
                => answers[id] = "submitted"}

\* PoiClient::submit_operation for the proofs of one entry: a null result of
\* the node counts as success.
submit_operation(list_keys, answer) ==
    IF list_keys = 0 \/ answer \in {"submitted", "null_result"} THEN "Ok"
    ELSE "PoiClient"

\* The body of the loop of process for one entry, with removal also on a
\* failed submission.
process_entry_RemovesOnSubmitError(entry, known, answer) ==
    IF known # "both" THEN "skip"
    ELSE IF answer = "missing_tree" THEN "MissingTree"
    ELSE IF entry.list_keys > 0 /\ answer = "inputs_error" THEN "CircuitInputs"
    ELSE IF entry.list_keys > 0 /\ answer = "prover_error" THEN "Prover"
    ELSE "remove"

\* The body of the loop of process for one entry: skip, remove, or the error
\* process returns.
process_entry(entry, known, answer) ==
    IF known # "both" THEN "skip"
    ELSE IF answer = "missing_tree" THEN "MissingTree"
    ELSE IF entry.list_keys > 0 /\ answer = "inputs_error" THEN "CircuitInputs"
    ELSE IF entry.list_keys > 0 /\ answer = "prover_error" THEN "Prover"
    ELSE IF submit_operation(entry.list_keys, answer) # "Ok" THEN "PoiClient"
    ELSE "remove"

\* Vec::swap_remove(i): the last element takes the place of the removed one.
Vec_swap_remove(v, i) ==
    [k \in 1..(Len(v) - 1) |-> IF k = i THEN v[Len(v)] ELSE v[k]]

\* Vec::remove(i): the elements after i shift down.
Vec_remove(v, i) == SubSeq(v, 1, i - 1) \o SubSeq(v, i + 1, Len(v))

\* The loop `for i in (0..self.pending.len()).rev()` of process, from index i
\* (counted from 1) downwards.
RECURSIVE ProcessFrom(_, _, _, _, _)
ProcessFrom(pending, i, known, answers, submitted) ==
    IF i = 0 THEN [pending |-> pending, status |-> "Ok", submitted |-> submitted]
    ELSE
      LET entry == pending[i]
          step == process_entry(entry, known[entry.txid], answers[entry.id])
      IN  CASE step = "skip" ->
                   ProcessFrom(pending, i - 1, known, answers, submitted)
            [] step = "remove" ->
                   ProcessFrom(Vec_remove(pending, i), i - 1, known, answers,
                               Append(submitted, entry.id))
            [] OTHER ->
                   [pending |-> pending, status |-> step, submitted |-> submitted]

\* PendingPoiSubmitter::process.
process(pending, known, answers) ==
    ProcessFrom(pending, Len(pending), known, answers, <<>>)

NoProcess ==
    [status |-> "None", submitted |-> <<>>, before |-> <<>>,
     known |-> [t \in PoiTxids |-> "none"],
     answers |-> [id \in 1..MaxRegistered |-> "submitted"]]

SubmitterInit ==
    /\ poi_pending = <<>>
    /\ poi_known = [t \in PoiTxids |-> "none"]
    /\ poi_result = NoProcess
    /\ poi_log = [registered |-> 0, removed |-> {}]

\* submitter.register(op) for an operation with a TxID.
SubmitterRegister(txid, list_keys) ==
    /\ poi_log.registered < MaxRegistered
    /\ poi_pending' =
           Append(poi_pending,
                  [id |-> poi_log.registered + 1, txid |-> txid,
                   list_keys |-> list_keys])
    /\ poi_log' = [poi_log EXCEPT !.registered = @ + 1]
    /\ poi_result' = NoProcess
    /\ UNCHANGED poi_known
    /\ UNCHANGED OutsideSubmitter

\* The TxID indexer learns or, on a reset, forgets positions of a TxID.
TxidIndexerMoves(txid, known) ==
    /\ poi_known[txid] # known
    /\ poi_known' = [poi_known EXCEPT ![txid] = known]
    /\ poi_result' = NoProcess
    /\ UNCHANGED <<poi_pending, poi_log>>
    /\ UNCHANGED OutsideSubmitter

\* submitter.process(txid_indexer, utxo_indexer, poi_client, prover).
SubmitterProcess ==
    /\ poi_pending # <<>>
    /\ \E answers \in AnswersFor(poi_pending, poi_known) :
           LET outcome == process(poi_pending, poi_known, answers)
               removed == {outcome.submitted[k] : k \in 1..Len(outcome.submitted)}
           IN  /\ poi_pending' = outcome.pending
               /\ poi_result' =
                      [status |-> outcome.status, submitted |-> outcome.submitted,
                       before |-> poi_pending, known |-> poi_known,
                       answers |-> answers]
               /\ poi_log' = [poi_log EXCEPT !.removed = @ \cup removed]
    /\ UNCHANGED poi_known
    /\ UNCHANGED OutsideSubmitter

SubmitterNext ==
    \/ \E txid \in PoiTxids, list_keys \in {0, 1} : SubmitterRegister(txid, list_keys)
    \/ \E txid \in PoiTxids, known \in KnownPositions : TxidIndexerMoves(txid, known)
    \/ SubmitterProcess

(* ------------------ Broadcaster::send: request and response --------------- *)

\* The request's shared secret, and the secret of some other request.
SharedKeys == {1, 2}

\* What a decrypted response holds.
ResponseBodies == {"txHash", "error", "noHash", "notJson"}

\* A payload that is not the JSON of an RpcResult.
Garbage == [parses |-> FALSE, key |-> 0, body |-> "none"]

\* The payloads the response topic carries: garbage, well-formed responses
\* sealed under the request's secret, and responses to other requests.
Payloads ==
    {Garbage}
        \cup {[parses |-> TRUE, key |-> k, body |-> b] :
                  k \in SharedKeys, b \in {"txHash", "error"}}
        \cup {[parses |-> TRUE, key |-> 1, body |-> b] : b \in ResponseBodies}

RECURSIVE BatchesUpTo(_)
BatchesUpTo(n) ==
    IF n = 0 THEN {<<>>}
    ELSE LET shorter == BatchesUpTo(n - 1)
         IN  shorter \cup {Append(b, p) : b \in {s \in shorter : Len(s) = n - 1},
                                          p \in Payloads}

\* What poll_next_ready drains in one pass, or one retrieve_historical returns.
Batches == BatchesUpTo(MaxMessages)

\* The reported hash of the one transaction of the model.
ReportedTxHash == 7

\* hash_payload: DefaultHasher over the bytes; distinct payloads of the model
\* have distinct hashes.
hash_payload(payload) == payload

decrypt_gcm_AnyKey(shared_secret, payload) ==
    [ok |-> TRUE, body |-> payload.body]

\* SharedKey::decrypt_gcm: AES-256-GCM opens only what was sealed under the
\* same key; the tag fails otherwise.
decrypt_gcm(shared_secret, payload) ==
    IF payload.key = shared_secret
    THEN [ok |-> TRUE, body |-> payload.body]
    ELSE [ok |-> FALSE, body |-> "none"]

\* decode_response: Ok(None) for a payload that does not parse or does not
\* decrypt, Ok(Some(hash)) or an error for one that decrypts.
decode_response(shared_secret, payload) ==
    IF ~payload.parses
    THEN [status |-> "None", tx_hash |-> 0]
    ELSE LET decrypted_resp == decrypt_gcm(shared_secret, payload)
         IN  IF ~decrypted_resp.ok
             THEN [status |-> "None", tx_hash |-> 0]
             ELSE CASE decrypted_resp.body = "notJson" ->
                           [status |-> "Serde", tx_hash |-> 0]
                    [] decrypted_resp.body = "error" ->
                           [status |-> "InvalidResponse", tx_hash |-> 0]
                    [] decrypted_resp.body = "noHash" ->
                           [status |-> "InvalidResponse", tx_hash |-> 0]
                    [] OTHER ->
                           [status |-> "Ok", tx_hash |-> ReportedTxHash]

NoPayload == [parses |-> FALSE, key |-> 0, body |-> "nothing"]

\* The loop over the messages of one drain or of one historical answer: a
\* payload is decoded unless its hash was seen, and the first payload that
\* decodes to a hash or to an error ends the loop.
RECURSIVE handle_messages(_, _, _)
handle_messages(shared_secret, seen, msgs) ==
    IF msgs = <<>>
    THEN [seen |-> seen, result |-> [status |-> "None", tx_hash |-> 0],
          ended_by |-> NoPayload]
    ELSE LET msg == Head(msgs)
             hash == hash_payload(msg)
         IN  IF hash \in seen
             THEN handle_messages(shared_secret, seen, Tail(msgs))
             ELSE LET decoded == decode_response(shared_secret, msg)
                  IN  IF decoded.status = "None"
                      THEN handle_messages(shared_secret, seen \cup {hash},
                                           Tail(msgs))
                      ELSE [seen |-> seen \cup {hash}, result |-> decoded,
                            ended_by |-> msg]

after_sleep_NoProgress(elapsed) == elapsed

\* sleep(Duration::from_millis(250))
after_sleep(elapsed) == elapsed + SLEEP_MS

NoSend ==
    [pc |-> "idle", shared_secret |-> 1, elapsed |-> 0,
     last_send |-> 0, prev_send |-> -1,
     last_store_poll |-> 0, prev_store_poll |-> -1,
     seen |-> {}, sends |-> 0, polls |-> 0,
     result |-> [status |-> "None", tx_hash |-> 0],
     ended_by |-> NoPayload, channel |-> "none"]

SendInit == sender = NoSend

\* send up to the loop: subscribe, start the clock, publish the request.
SendStart(subscribe_ok, send_ok) ==
    /\ sender.pc \in {"idle", "done"}
    /\ IF ~subscribe_ok \/ ~send_ok
       THEN sender' = [NoSend EXCEPT
                          !.pc = "done",
                          !.sends = IF subscribe_ok THEN 1 ELSE 0,
                          !.result = [status |-> "Transport", tx_hash |-> 0]]
       ELSE sender' = [NoSend EXCEPT !.pc = "top", !.sends = 1]
    /\ UNCHANGED OutsideSend

\* The head of the loop: the timeout check, then the drain of the messages
\* the subscription holds ready.
SendDrainFilter(msgs) ==
    /\ sender.pc = "top"
    /\ IF sender.elapsed >= TIMEOUT_MS
       THEN sender' = [sender EXCEPT
                          !.pc = "done",
                          !.result = [status |-> "Timeout", tx_hash |-> 0]]
       ELSE LET handled == handle_messages(sender.shared_secret, sender.seen, msgs)
            IN  IF handled.result.status = "None"
                THEN sender' = [sender EXCEPT !.pc = "store",
                                              !.seen = handled.seen]
                ELSE sender' = [sender EXCEPT !.pc = "done",
                                              !.seen = handled.seen,
                                              !.result = handled.result,
                                              !.ended_by = handled.ended_by,
                                              !.channel = "filter"]
    /\ UNCHANGED OutsideSend

\* The Store poll, when retry_delay has passed since the last one: the
\* answer arrives after `slow` sleeps' worth of time; an error is logged only.
SendPollStore(store_ok, msgs, slow) ==
    /\ sender.pc = "store"
    /\ IF sender.elapsed - sender.last_store_poll >= RETRY_DELAY_MS
       THEN LET polling == [sender EXCEPT
                              !.prev_store_poll = sender.last_store_poll,
                              !.last_store_poll = sender.elapsed,
                              !.polls = sender.polls + 1,
                              !.elapsed = sender.elapsed + slow * SLEEP_MS]
                handled == handle_messages(sender.shared_secret, sender.seen, msgs)
            IN  IF ~store_ok \/ handled.result.status = "None"
                THEN sender' = [polling EXCEPT
                                   !.pc = "resend",
                                   !.seen = IF store_ok THEN handled.seen
                                            ELSE sender.seen]
                ELSE sender' = [polling EXCEPT !.pc = "done",
                                               !.seen = handled.seen,
                                               !.result = handled.result,
                                               !.ended_by = handled.ended_by,
                                               !.channel = "store"]
       ELSE sender' = [sender EXCEPT !.pc = "resend"]
    /\ UNCHANGED OutsideSend

\* The request is published again when resend_interval has passed.
SendResend(send_ok) ==
    /\ sender.pc = "resend"
    /\ IF sender.elapsed - sender.last_send >= RESEND_INTERVAL_MS
       THEN IF send_ok
            THEN sender' = [sender EXCEPT !.pc = "sleep",
                                          !.prev_send = sender.last_send,
                                          !.last_send = sender.elapsed,
                                          !.sends = sender.sends + 1]
            ELSE sender' = [sender EXCEPT
                               !.pc = "done",
                               !.result = [status |-> "Transport", tx_hash |-> 0]]
       ELSE sender' = [sender EXCEPT !.pc = "sleep"]
    /\ UNCHANGED OutsideSend

\* The sleep that ends an iteration.
SendSleep ==
    /\ sender.pc = "sleep"
    /\ sender' = [sender EXCEPT !.pc = "top",
                                !.elapsed = after_sleep(sender.elapsed)]
    /\ UNCHANGED OutsideSend

\* What a call of send in flight does next.
SendStep ==
    \/ \E msgs \in Batches : SendDrainFilter(msgs)
    \/ \E store_ok \in BOOLEAN, msgs \in Batches, slow \in 0..MaxSlowSleeps :
           SendPollStore(store_ok, msgs, slow)
    \/ \E send_ok \in BOOLEAN : SendResend(send_ok)
    \/ SendSleep

SendNext ==
    \/ \E subscribe_ok \in BOOLEAN, send_ok \in BOOLEAN :
           SendStart(subscribe_ok, send_ok)
    \/ \E msgs \in Batches : SendDrainFilter(msgs)
    \/ \E store_ok \in BOOLEAN, msgs \in Batches, slow \in 0..MaxSlowSleeps :
           SendPollStore(store_ok, msgs, slow)
    \/ \E send_ok \in BOOLEAN : SendResend(send_ok)
    \/ SendSleep

(* ----------------- SubsquidSyncer::post_graphql: the retries -------------- *)

\* What one POST to the endpoint comes to: the request fails in transport,
\* the status is not a success, the body is not a Response<R>, or a
\* Response<R> arrives with errors, without data, or with data.
HttpOutcomes ==
    {"Reqwest", "ServerError", "Decode", "GraphqlErrors", "MissingData", "Data"}

\* The outcomes for which the inner async block returns Err.
IsRequestError(outcome) == outcome \in {"Reqwest", "ServerError", "Decode"}

retries_exhausted_OneMore(attempts) == attempts > MAX_RETRIES

\* if attempts >= MAX_RETRIES { return Err(e) }
retries_exhausted(attempts) == attempts >= MAX_RETRIES

\* The queries the syncer posts.
GraphqlOperations == {"latest_block", "commitments", "nullifiers", "operations"}

NoGraphql ==
    [pc |-> "idle", op_name |-> "latest_block", attempts |-> 0, requests |-> <<>>, sleeps |-> 0,
     elapsed |-> 0, result |-> "None"]

GraphqlInit == gql = NoGraphql

\* post_graphql is called: the body is serialized and attempts is 0.
PostGraphql(op_name) ==
    /\ gql.pc \in {"idle", "done"}
    /\ gql' = [NoGraphql EXCEPT !.pc = "request", !.op_name = op_name]
    /\ UNCHANGED OutsideGraphql

\* One pass of the loop up to the sleep: the POST and the match on its result.
GraphqlRequest(outcome) ==
    /\ gql.pc = "request"
    /\ LET sent == [gql EXCEPT !.requests = Append(gql.requests, outcome)]
       IN  IF IsRequestError(outcome)
           THEN LET attempts == gql.attempts + 1
                IN  IF retries_exhausted(attempts)
                    THEN gql' = [sent EXCEPT !.pc = "done", !.attempts = attempts,
                                             !.result = outcome]
                    ELSE gql' = [sent EXCEPT !.pc = "sleep", !.attempts = attempts]
           ELSE gql' = [sent EXCEPT !.pc = "done", !.result = outcome]
    /\ UNCHANGED OutsideGraphql

\* sleep(RETRY_DELAY).await
GraphqlSleep ==
    /\ gql.pc = "sleep"
    /\ gql' = [gql EXCEPT !.pc = "request", !.sleeps = gql.sleeps + 1,
                          !.elapsed = gql.elapsed + RETRY_DELAY]
    /\ UNCHANGED OutsideGraphql

GraphqlNext ==
    \/ \E op_name \in GraphqlOperations : PostGraphql(op_name)
    \/ \E outcome \in HttpOutcomes : GraphqlRequest(outcome)
    \/ GraphqlSleep

(* ------------- UtxoIndexer::sync_to over syncers whose fetches fail ------- *)

\* RpcSyncer::event_stream_inner when provider.get_logs fails for the batches
\* that start at the blocks of `failing`: the unfold returns None at the
\* first such batch and the stream ends there.
RECURSIVE event_stream_failing(_, _, _, _)
event_stream_failing(events, current_block, to_block, failing) ==
    IF current_block > to_block THEN <<>>
    ELSE LET last == current_block + RpcBatchSize - 1
             batch_end == IF last < to_block THEN last ELSE to_block
         IN IF current_block \in failing THEN <<>>
            ELSE get_logs(events, current_block, batch_end)
                     \o event_stream_failing(events, batch_end + 1, to_block, failing)

\* SubsquidSyncer::commitment_stream_inner when fetch_commitment_events
\* fails for page number failing_page (0: for none): the stream ends there.
RECURSIVE commitment_stream_failing(_, _, _, _, _, _)
commitment_stream_failing(events, from_block, to_block, last_id, page, failing_page) ==
    IF page = failing_page THEN <<>>
    ELSE LET batch == fetch_commitment_events(events, from_block, to_block, last_id)
         IN IF /\ batch.shield_events = <<>>
               /\ batch.transact_events = <<>>
               /\ batch.legacy_events = <<>>
            THEN <<>>
            ELSE batch.shield_events \o batch.transact_events \o batch.legacy_events
                     \o commitment_stream_failing(events, from_block, to_block,
                                                  batch.last_id, page + 1, failing_page)

\* SubsquidSyncer::nullified_stream_inner when fetch_nullified_events fails
\* for page number failing_page.
RECURSIVE nullified_stream_failing(_, _, _, _, _, _)
nullified_stream_failing(events, from_block, to_block, last_id, page, failing_page) ==
    IF page = failing_page THEN <<>>
    ELSE LET batch == fetch_nullified_events(events, from_block, to_block, last_id)
         IN IF batch.nullified_events = <<>> THEN <<>>
            ELSE batch.nullified_events
                     \o nullified_stream_failing(events, from_block, to_block,
                                                 batch.last_id, page + 1, failing_page)

\* What fails during one sync: the RPC batches, the commitment page and the
\* nullified page.
NoFailure == [rpc |-> {}, commitments |-> 0, nullifieds |-> 0]

FetchFailures ==
    [rpc : SUBSET (1..MaxBlocks), commitments : 0..MaxFailingPage,
     nullifieds : 0..MaxFailingPage]

\* The failures a syncer of the given kind can meet.
FailuresOf(kind) ==
    IF kind = "rpc"
    THEN {f \in FetchFailures : f.commitments = 0 /\ f.nullifieds = 0}
    ELSE {f \in FetchFailures : f.rpc = {}}

\* syncer.sync(from_block, to_block) and the stream read to its end: the
\* stream's items are events, so a failed fetch can only end it.
stream_with_failures(kind, events, from_block, to_block, failure) ==
    [status |-> "Ok",
     events |->
        IF kind = "rpc"
        THEN event_stream_failing(events, from_block, to_block, failure.rpc)
        ELSE commitment_stream_failing(events, from_block, to_block, 0, 1,
                                       failure.commitments)
                 \o nullified_stream_failing(events, from_block, to_block, 0, 1,
                                             failure.nullifieds)]

\* The trees of the contract after each block of the chain.
TreesAfter(events, k) ==
    RebuildAll(Replay([utxo_trees |-> EmptyMap, accounts |-> <<>>,
                       seen_commitments |-> {}],
                      SubSeq(events, 1, k), 1).utxo_trees)

\* RailgunSmartWallet.rootHistory(tree_number, root): every root the tree
\* has had on chain.
rootHistory(events, tree_number, tree_root) ==
    \E k \in 0..Len(events) :
        LET trees == TreesAfter(events, k)
        IN  tree_number \in DOMAIN trees /\ root(trees[tree_number]) = tree_root

\* SmartWalletUtxoVerifier::verify_root for each tree of the indexer, the
\* contract call answering.
verify_root(events, trees) ==
    [t \in DOMAIN trees |->
        IF rootHistory(events, t, root(trees[t])) THEN "valid" ELSE "invalid"]

NoFetch ==
    [op |-> "none", status |-> "None", syncer |-> "rpc", from_block |-> 0,
     to_block |-> 0, failure |-> NoFailure, stream |-> <<>>]

FetchInit ==
    fetcher = [synced_block |-> 0, utxo_trees |-> EmptyMap, seen_commitments |-> {},
               result |-> NoFetch]

\* UtxoIndexer::sync_to(to_block) of an indexer over a syncer of the given
\* kind, while the fetches of `failure` fail; no account is registered.
FetchSyncTo(kind, to_block, failure) ==
    /\ task.pc = "idle"
    /\ chain # <<>>
    /\ LET from_block == fetcher.synced_block + 1
           latest_block == Len(chain)
           to == IF to_block < latest_block THEN to_block ELSE latest_block
           called == [NoFetch EXCEPT !.op = "sync_to", !.syncer = kind,
                                     !.from_block = from_block, !.to_block = to,
                                     !.failure = failure]
       IN IF from_block > to
          THEN fetcher' = [fetcher EXCEPT !.result = [called EXCEPT !.status = "Ok"]]
          ELSE LET synced == stream_with_failures(kind, chain, from_block, to, failure)
               IN IF synced.status # "Ok"
                  THEN fetcher' = [fetcher EXCEPT
                                      !.result = [called EXCEPT !.status = "SyncerError"]]
                  ELSE LET ix == Replay([utxo_trees |-> fetcher.utxo_trees,
                                         accounts |-> <<>>,
                                         seen_commitments |-> fetcher.seen_commitments],
                                        synced.events, 1)
                           rebuilt == RebuildAll(ix.utxo_trees)
                           v == UtxoIndexer_verify(rebuilt,
                                                   verify_root(chain, rebuilt))
                       IN fetcher' =
                              [synced_block |-> IF v.status = "Ok" THEN to
                                                ELSE fetcher.synced_block,
                               utxo_trees |-> rebuilt,
                               seen_commitments |-> ix.seen_commitments,
                               result |-> [called EXCEPT
                                             !.status = IF v.status = "Ok" THEN "Ok"
                                                        ELSE "VerificationError",
                                             !.stream = synced.events]]
    /\ UNCHANGED OutsideFetch

FetchNext ==
    \/ MineBlock
    \/ \E kind \in {"rpc", "subsquid"}, to_block \in 1..MaxBlocks :
           \E failure \in FailuresOf(kind) :
               FetchSyncTo(kind, to_block, failure)

(* --------------------------- TxidIndexer::sync_to ------------------------- *)

\* TransactionSyncer::sync(from_block, to_block): the operations of the
\* blocks of the range, of which block b holds operation b; none when the
\* range is empty.
TransactionSyncer_sync(from_block, to_block) ==
    [i \in 1..(IF to_block >= from_block THEN to_block - from_block + 1 ELSE 0) |->
        from_block + i - 1]

\* The loop of sync_to over the operations: txid_set.enqueue(op, block).
enqueue_all(pending, ops) == pending \o ops

NoTxidSync ==
    [status |-> "None", from_block |-> 0, to_block |-> 0, synced_before |-> 0,
     ops |-> <<>>]

TxidIndexerInit ==
    txix = [latest |-> 0, synced_block |-> 0, txid_set |-> TxidTreeSet_new,
            enqueued |-> <<>>, syncs |-> 0, result |-> NoTxidSync]

\* The chain grows by a block, which holds one operation.
TxidMineBlock ==
    /\ txix.latest < MaxTxidBlocks
    /\ txix' = [txix EXCEPT !.latest = @ + 1, !.result = NoTxidSync]
    /\ UNCHANGED OutsideTxidIndexer

\* TxidIndexer::sync_to(to_block) when latest_block() or sync() fails.
TxidSyncToSyncerError ==
    /\ txix.syncs < MaxTxidSyncs
    /\ txix' = [txix EXCEPT
                   !.syncs = @ + 1,
                   !.result = [NoTxidSync EXCEPT !.status = "SyncerError",
                                                 !.synced_before = txix.synced_block]]
    /\ UNCHANGED OutsideTxidIndexer

\* TxidIndexer::sync_to(to_block): the range, the fetch, the enqueues, the
\* new synced_block, then update().
TxidSyncTo(to_block, validated, transport_ok) ==
    /\ txix.syncs < MaxTxidSyncs
    /\ LET from_block == txix.synced_block + 1
           to == IF to_block < txix.latest THEN to_block ELSE txix.latest
           ops == TransactionSyncer_sync(from_block, to)
           queued == [txix.txid_set EXCEPT !.pending = enqueue_all(@, ops)]
           outcome == TxidTreeSet_update(queued, validated, transport_ok)
       IN  txix' = [txix EXCEPT
                       !.synced_block = to,
                       !.txid_set = outcome.set,
                       !.enqueued = @ \o ops,
                       !.syncs = @ + 1,
                       !.result = [status |-> outcome.status,
                                   from_block |-> from_block, to_block |-> to,
                                   synced_before |-> txix.synced_block,
                                   ops |-> ops]]
    /\ UNCHANGED OutsideTxidIndexer

\* TxidIndexer::reset().
TxidIndexerReset ==
    /\ txix.syncs > 0
    /\ txix' = [txix EXCEPT
                   !.synced_block = 0,
                   !.txid_set = TxidTreeSet_reset(@),
                   !.enqueued = <<>>, !.syncs = 0,
                   !.result = [NoTxidSync EXCEPT !.status = "Reset"]]
    /\ UNCHANGED OutsideTxidIndexer

\* What validated_txid answers: an error, or the index of the last operation
\* the aggregator has validated.
ValidatedAnswers ==
    {[ok |-> FALSE, index |-> 0]}
        \cup {[ok |-> TRUE, index |-> i] : i \in 0..(MaxTxidBlocks - 1)}

TxidIndexerNext ==
    \/ TxidMineBlock
    \/ TxidSyncToSyncerError
    \/ \E to_block \in 0..MaxTxidBlocks, validated \in ValidatedAnswers,
          transport_ok \in BOOLEAN :
           TxidSyncTo(to_block, validated, transport_ok)
    \/ TxidIndexerReset

(* ------------------- Pool-Mix indexer over a failing RPC ------------------ *)

\* The deposits of the blocks of a chain, in leaf order.
RECURSIVE DepositsOf(_, _, _)
DepositsOf(blocks, from_block, to_block) ==
    IF from_block > to_block \/ from_block > Len(blocks) THEN <<>>
    ELSE blocks[from_block] \o DepositsOf(blocks, from_block + 1, to_block)

\* RpcSyncer::sync_commitments(contract, from_block, to_block): the loop over
\* batches of batch_size blocks.  A batch whose get_logs fails is logged and
\* skipped (continue); the call returns Ok with the logs of the others.
RECURSIVE RpcSyncer_sync_commitments(_, _, _, _, _)
RpcSyncer_sync_commitments(blocks, current_block, to_block, batch_size, failed) ==
    IF current_block > to_block THEN <<>>
    ELSE LET batch_start == current_block
             batch_end == IF to_block < current_block + batch_size - 1
                          THEN to_block ELSE current_block + batch_size - 1
             logs == IF batch_start \in failed THEN <<>>
                     ELSE DepositsOf(blocks, batch_start, batch_end)
         IN  logs \o RpcSyncer_sync_commitments(blocks, batch_end + 1, to_block,
                                                batch_size, failed)

\* Tornado.isKnownRoot(root): the roots the pool has had, which are those of
\* the tree after each of its deposits (fewer than ROOT_HISTORY_SIZE here).
isKnownRoot(blocks, tree_root) ==
    LET all == DepositsOf(blocks, 1, Len(blocks))
    IN  \E k \in 0..Len(all) :
            LET vals == [i \in 1..k |-> all[i].commitment]
            IN  tree_root = root(IF k = 0 THEN MerkleTree_new(0)
                                 ELSE rebuild(insert_leaves_raw(MerkleTree_new(0),
                                                                vals, 0)))

\* Indexer::verify(): verifier.verify(pp.address, tree.root()).
Indexer_verify(blocks, tree) ==
    IF isKnownRoot(blocks, root(tree)) THEN "Ok" ELSE "InvalidRoot"

NoPoolCall ==
    [op |-> "none", status |-> "None", from_block |-> 0, to_block |-> 0,
     failed |-> {}, synced_before |-> 0]

\* Indexer::new(syncer, verifier, pool) inside PoolProvider::new; no root
\* has been verified.
PoolInit ==
    pp = [chain |-> <<>>, tree |-> MerkleTree_new(0), synced_block |-> 0,
            verified_block |-> 0, result |-> NoPoolCall]

\* The pool contract takes the deposit of one more block, or none.
PoolMineBlock(n) ==
    LET next == Len(DepositsOf(pp.chain, 1, Len(pp.chain)))
    IN /\ Len(pp.chain) < MaxPoolBlocks
       /\ next + n <= TOTAL_LEAVES
       /\ pp' = [pp EXCEPT
              !.chain = Append(@, [i \in 1..n |->
                                     [block_number |-> Len(pp.chain) + 1,
                                      leaf_index |-> next + i - 1,
                                      commitment |-> next + i]]),
              !.result = NoPoolCall]
       /\ UNCHANGED OutsidePool

\* Indexer::sync_to(to_block) over the RpcSyncer, the batches of `failed`
\* failing: the state of the indexer when it returns.
Pool_sync_to(p, to_block, failed) ==
    LET from_block == p.synced_block + 1
    IN  IF from_block > to_block THEN p
        ELSE LET r == Indexer_sync_to(p.tree, to_block,
                          RpcSyncer_sync_commitments(p.chain, from_block, to_block,
                                                     PoolBatchSize, failed))
             IN  [p EXCEPT !.tree = r.tree, !.synced_block = r.synced_block]

\* PoolProvider::sync_to(block): Indexer::sync_to(block).
PoolSyncTo(to_block, failed) ==
    /\ pp.chain # <<>>
    /\ failed \subseteq (pp.synced_block + 1)..to_block
    /\ pp' = [Pool_sync_to(pp, to_block, failed) EXCEPT
           !.result = [op |-> "sync_to", status |-> "Ok",
                       from_block |-> pp.synced_block + 1, to_block |-> to_block,
                       failed |-> failed, synced_before |-> pp.synced_block]]
    /\ UNCHANGED OutsidePool

\* PoolProvider::sync(): indexer.sync()? and then verify().
PoolSync(failed) ==
    /\ pp.chain # <<>>
    /\ failed \subseteq (pp.synced_block + 1)..Len(pp.chain)
    /\ LET to_block == Len(pp.chain)
           p == Pool_sync_to(pp, to_block, failed)
           status == Indexer_verify(p.chain, p.tree)
       IN  pp' = [p EXCEPT
               !.verified_block = IF status = "Ok" THEN p.synced_block ELSE @,
               !.result = [op |-> "sync", status |-> status,
                           from_block |-> pp.synced_block + 1,
                           to_block |-> to_block, failed |-> failed,
                           synced_before |-> pp.synced_block]]
    /\ UNCHANGED OutsidePool

\* PoolProvider::verify().
PoolVerify ==
    /\ pp.result.op # "verify"
    /\ LET status == Indexer_verify(pp.chain, pp.tree)
       IN  pp' = [pp EXCEPT
               !.verified_block = IF status = "Ok" THEN pp.synced_block ELSE @,
               !.result = [NoPoolCall EXCEPT !.op = "verify", !.status = status,
                                             !.synced_before = pp.synced_block]]
    /\ UNCHANGED OutsidePool

PoolNext ==
    \/ \E n \in 0..1 : PoolMineBlock(n)
    \/ \E to_block \in 1..MaxPoolBlocks :
           \E failed \in SUBSET (1..MaxPoolBlocks) : PoolSyncTo(to_block, failed)
    \/ \E failed \in SUBSET (1..MaxPoolBlocks) : PoolSync(failed)
    \/ PoolVerify

(* ------------- PendingPoiSubmitter::process, called repeatedly ------------ *)

\* The entries registered, by id; entry id is the operation of TxID id.
FatedIds == 1..MaxFated

NoRetry == [status |-> "None", submitted |-> <<>>, parity |-> 0]

\* PendingPoiSubmitter::new() beside a TxID indexer that knows no position.
\* fate[id] is how the awaited calls of entry id go whenever it is processed.
RetryInit ==
    resub = [pending |-> <<>>, known |-> [t \in FatedIds |-> "none"],
             fate |-> [id \in FatedIds |-> "submitted"], registered |-> 0,
             removed |-> {}, result |-> NoRetry]

\* submitter.register(op): the entry is pushed; its proving and submission
\* will go as `answer` says each time.
RetryRegister(answer) ==
    /\ resub.registered < MaxFated
    /\ LET id == resub.registered + 1
       IN  resub' = [resub EXCEPT
               !.pending = Append(@, [id |-> id, txid |-> id, list_keys |-> 1]),
               !.fate[id] = answer,
               !.registered = id]
    /\ UNCHANGED OutsideRetry

\* TxidTreeSet::update inserts TxID t: both of its positions are known from
\* then on.
RetryIndexerLearns(t) ==
    /\ resub.known[t] = "none"
    /\ resub' = [resub EXCEPT !.known[t] = "both"]
    /\ UNCHANGED OutsideRetry

\* One more call of submitter.process(...), as PoiProvider::sync makes at its
\* end.
RetryProcess ==
    /\ resub.pending # <<>>
    /\ LET outcome == process(resub.pending, resub.known, resub.fate)
       IN  resub' = [resub EXCEPT
               !.pending = outcome.pending,
               !.removed = @ \cup {outcome.submitted[k] :
                                      k \in 1..Len(outcome.submitted)},
               !.result = [status |-> outcome.status,
                           submitted |-> outcome.submitted,
                           parity |-> 1 - resub.result.parity]]
    /\ UNCHANGED OutsideRetry

RetryNext ==
    \/ \E answer \in EntryAnswers : RetryRegister(answer)
    \/ \E t \in FatedIds : RetryIndexerLearns(t)
    \/ RetryProcess

(* ------------------ Pool-Mix relayers and their health -------------------- *)

\* What GET /status of a relayer gives: no answer, a status that is not
\* healthy, the status of another network, or a healthy status with the
\* relayer's fee and price list.
HealthAnswers ==
    {[kind |-> k, service_fee |-> 0, eth_prices |-> {}] :
        k \in {"error", "unhealthy", "wrong_net"}}
      \cup [kind : {"healthy"}, service_fee : {10, 53}, eth_prices : {{}, {"DAI"}}]

\* The body of the loop of health_check_all for one relayer.
health_check_one(r, answer) ==
    IF answer.kind = "healthy"
    THEN [r EXCEPT !.service_fee_percent = answer.service_fee,
                   !.eth_prices = answer.eth_prices,
                   !.healthy = TRUE, !.passed = TRUE]
    ELSE [r EXCEPT !.healthy = FALSE]

\* BroadcasterIndexer::health_check_all.
health_check_all(all, answers) ==
    [i \in 1..Len(all) |-> health_check_one(all[i], answers[i])]

\* BroadcasterIndexer::relayers(): the healthy ones, by index.
healthy_relayers(all) ==
    SelectSeq([i \in 1..Len(all) |-> i], LAMBDA i : all[i].healthy)

\* The relayer sync_to pushes for a new (registration, hostname) pair.
NewRelayer(chain_id) ==
    [chain_id |-> chain_id, eth_prices |-> {}, stake_balance |-> MaxStake,
     service_fee_percent |-> 0, healthy |-> FALSE, passed |-> FALSE]

NoHealthPick ==
    [status |-> "none", chain_id |-> 0, token_symbol |-> <<>>, index |-> 0,
     listed |-> <<>>]

\* BroadcasterIndexer::new.
HealthInit ==
    hc = [relayers |-> <<>>, picked |-> NoHealthPick]

\* sync_to over a range with the registration of one new relayer: the
\* relayer is pushed and every relayer is health-checked.
HealthSyncTo(chain_id) ==
    /\ Len(hc.relayers) < MaxHealthRelayers
    /\ \E answers \in [1..(Len(hc.relayers) + 1) -> HealthAnswers] :
           hc' = [relayers |-> health_check_all(
                                   Append(hc.relayers, NewRelayer(chain_id)), answers),
                  picked |-> NoHealthPick]
    /\ UNCHANGED OutsideHealth

\* health_check_all().
HealthCheckAll ==
    /\ hc.relayers # <<>>
    /\ \E answers \in [1..Len(hc.relayers) -> HealthAnswers] :
           hc' = [relayers |-> health_check_all(hc.relayers, answers),
                  picked |-> NoHealthPick]
    /\ UNCHANGED OutsideHealth

\* prune_stale_relayers(max_age): the unhealthy relayers of `stale` were last
\* healthy longer ago than max_age.
HealthPrune(stale) ==
    /\ stale # {} /\ stale \subseteq 1..Len(hc.relayers)
    /\ \A i \in stale : ~hc.relayers[i].healthy
    /\ LET kept == SelectSeq([i \in 1..Len(hc.relayers) |-> i],
                             LAMBDA i : i \notin stale)
       IN  hc' = [relayers |-> [k \in 1..Len(kept) |-> hc.relayers[kept[k]]],
                  picked |-> NoHealthPick]
    /\ UNCHANGED OutsideHealth

\* pick_relayer(chain_id, token_symbol, rng) and, beside it, relayers().
HealthPickRelayer(chain_id, token_symbol, rng) ==
    /\ hc.relayers # <<>>
    /\ LET index == pick_relayer(hc.relayers, chain_id, token_symbol, rng)
       IN  hc' = [hc EXCEPT !.picked =
                      [status |-> IF index = 0 THEN "None" ELSE "Some",
                       chain_id |-> chain_id, token_symbol |-> token_symbol,
                       index |-> index, listed |-> healthy_relayers(hc.relayers)]]
    /\ UNCHANGED OutsideHealth

HealthNext ==
    \/ \E chain_id \in RelayerChains : HealthSyncTo(chain_id)
    \/ HealthCheckAll
    \/ \E stale \in SUBSET (1..MaxHealthRelayers) : HealthPrune(stale)
    \/ \E chain_id \in RelayerChains, token_symbol \in TokenSymbols,
          rng \in 0..(RNG_STEPS - 1) :
           HealthPickRelayer(chain_id, token_symbol, rng)

(* ---------------------------- specifications ----------------------------- *)

\* Every component as constructed.
Init ==
    /\ TreeInit /\ IndexerInit /\ TcInit /\ AwaitInit /\ SyncerInit /\ BroadcastInit
    /\ CancelInit
    /\ BuilderInit
    /\ ManagerInit
    /\ RelayerInit
    /\ PrepareInit
    /\ JobInit
    /\ SnapshotInit
    /\ CodecInit
    /\ NoteStringInit
    /\ TxidInit
    /\ SubmitterInit
    /\ SendInit
    /\ GraphqlInit
    /\ FetchInit
    /\ TxidIndexerInit
    /\ PoolInit
    /\ RetryInit
    /\ HealthInit

\* The stand-alone tree alone: the indexers stay as constructed.
SpecTree == Init /\ [][TreeNext]_vars

\* The Shield-UTXO indexer and its chain.
Spec == Init /\ [][Next]_vars

\* The Pool-Mix indexer and its chain.
SpecTc == Init /\ [][TcNext]_vars

\* A caller waiting on the Shield-UTXO indexer for commitments.
SpecAwait == Init /\ [][AwaitNext]_vars

\* PoiProvider::broadcast racing the broadcaster against the indexer.
SpecBroadcast == Init /\ [][BroadcastNext]_vars

\* The Shield-UTXO indexer with sync futures that are dropped.
SpecCancel == Init /\ [][CancelNext]_vars

\* The note syncers reading the Shield-UTXO chain.
SpecSyncer == Init /\ [][SyncerNext]_vars

\* The transaction builder turning drafts and unspent notes into operations.
SpecBuilder == Init /\ [][BuilderNext]_vars

\* The broadcaster manager: its subscription loop and its fee cache.
SpecManager == Init /\ [][ManagerNext]_vars

\* The Pool-Mix broadcaster indexer picking a relayer.
SpecRelayer == Init /\ [][RelayerNext]_vars

\* The Pool-Mix broadcast provider preparing a withdrawal.
SpecPrepare == Init /\ [][PrepareNext]_vars

\* The Pool-Mix broadcast provider waiting for a relayer job.
SpecJob == Init /\ [][JobNext]_vars

\* A stand-alone tree, its snapshot and the tree restored from it.
SpecSnapshot == Init /\ [][SnapshotNext]_vars

\* The base37 codec: a text encoded and the encoding decoded.
SpecCodec == Init /\ [][CodecNext]_vars

\* The Pool-Mix note string: a note formatted and the string parsed.
SpecNoteString == Init /\ [][NoteStringNext]_vars

\* The TxID tree set between its syncer and the POI aggregator.
SpecTxid == Init /\ [][TxidNext]_vars

\* The pending POI submitter beside the TxID indexer.
SpecSubmitter == Init /\ [][SubmitterNext]_vars

SpecSend == Init /\ [][SendNext]_vars

\* The executor resumes send whenever the transport call or the sleep it
\* awaits has completed.
SpecSendFair == Init /\ [][SendNext]_vars /\ WF_vars(SendStep)

SpecGraphql == Init /\ [][GraphqlNext]_vars

SpecFetch == Init /\ [][FetchNext]_vars

SpecTxidIndexer == Init /\ [][TxidIndexerNext]_vars

\* The Pool-Mix provider syncing and verifying over an RPC whose batches fail.
SpecPool == Init /\ [][PoolNext]_vars

\* The pending POI submitter under repeated process calls: every sync of the
\* provider ends with one, so a call that can be made is eventually made.
SpecRetryFair == Init /\ [][RetryNext]_vars /\ WF_vars(RetryProcess)

\* The Pool-Mix relayers through syncs, health checks, pruning and picks.
SpecHealth == Init /\ [][HealthNext]_vars

(* ------------------------- Merkle engine claims -------------------------- *)

\* tree[level][index], or the zero value of the level when the index is not
\* populated.
ChildOrZero(t, level, index) ==
    IF index < Len(t.tree[level + 1]) THEN t.tree[level + 1][index + 1]
    ELSE Zeros(level)

\* Every populated node below the root level has a parent that is the hash of
\* its two children.
NodesConsistent(t) ==
    \A level \in 0..(TREE_DEPTH - 1) :
        \A i \in 0..(Len(t.tree[level + 1]) - 1) :
            LET p == i \div 2
            IN /\ p < Len(t.tree[level + 2])
               /\ t.tree[level + 2][p + 1] =
                      Hash(ChildOrZero(t, level, 2 * p), ChildOrZero(t, level, 2 * p + 1))

\* A generate_proof call on the clean tree has returned.
ProofReturnedOnCleanTree ==
    /\ proof_result.status \in {"Ok", "ElementNotFound", "InvalidProof"}
    /\ mt.dirty_parents = {}

\* C4 as stated: on a rebuilt tree generate_proof(e) succeeds with a proof that
\* verifies against the current root for every value e ever inserted, and fails
\* with element-not-found for every value never inserted.
C4_InsertedIffProvable ==
    ProofReturnedOnCleanTree =>
        IF proof_result.element \in mt_inserted
        THEN /\ proof_result.status = "Ok"
             /\ MerkleProof_verify(proof_result.proof)
             /\ proof_result.proof.root = root(mt)
        ELSE proof_result.status = "ElementNotFound"

\* C4 amended: on a rebuilt tree generate_proof(e) succeeds with a proof that
\* verifies against the current root for every value e currently held at level 0
\* (an inserted leaf not overwritten since, or the zero value filling a gap), and
\* fails with element-not-found for every value not held at level 0.
C4_StoredIffProvable ==
    ProofReturnedOnCleanTree =>
        IF \E i \in 1..leaves_len(mt) : mt.tree[1][i] = proof_result.element
        THEN /\ proof_result.status = "Ok"
             /\ MerkleProof_verify(proof_result.proof)
             /\ proof_result.proof.root = root(mt)
             /\ proof_result.proof.element = proof_result.element
        ELSE proof_result.status = "ElementNotFound"

\* A proof was returned for an inserted leaf that is not the first leaf of a
\* tree holding a zero-filled gap.
C4_Witness ==
    /\ ProofReturnedOnCleanTree
    /\ proof_result.status = "Ok"
    /\ proof_result.element \in mt_inserted
    /\ proof_result.proof.indices >= 2
    /\ \E i \in 1..leaves_len(mt) : mt.tree[1][i] = ZeroValue

\* C5: whenever the dirty set is empty, every populated node at a level k < D
\* has the parent tree[k+1][i div 2] = H(left child, right child), an unpopulated
\* child being replaced by Z[k].
C5_CleanTreeIsHashConsistent ==
    mt.dirty_parents = {} => NodesConsistent(mt)

\* A rebuilt tree filled to capacity after inserts at a start position > 0 (its
\* first leaf is a zero fill) and more than one batch.
C5_Witness ==
    /\ mt.dirty_parents = {}
    /\ leaves_len(mt) = TOTAL_LEAVES
    /\ mt.tree[1][1] = ZeroValue
    /\ Cardinality(mt_inserted) >= 2

(* ----------------------- Shield-UTXO indexer claims ---------------------- *)

\* Every tree of the map has been rebuilt.
AllRebuilt(trees) == \A t \in DOMAIN trees : trees[t].dirty_parents = {}

\* The leaves of every tree of the map.
LeavesOf(trees) == [t \in DOMAIN trees |-> trees[t].tree[1]]

\* C1: sync_to advances synced_block to `to` only at its end, when the stream
\* has been processed, every tree is rebuilt and the verifier has accepted
\* every non-empty tree; when the verifier rejects a root, sync_to returns a
\* verification error and synced_block keeps its value.
C1_SyncedBlockAdvancesAfterVerification ==
    [][/\ synced_block' > synced_block =>
              /\ task.pc = "sync_to" /\ task.stream = <<>>
              /\ synced_block' = task.to_block
              /\ AllRebuilt(utxo_trees')
              /\ result'.op = "sync_to" /\ result'.status = "Ok"
              /\ \A t \in DOMAIN utxo_trees' :
                     leaves_len(utxo_trees'[t]) > 0 => t \in result'.accepted
       /\ (result'.op = "sync_to" /\ result'.status = "VerificationError") =>
              synced_block' = synced_block]_vars

\* A sync over two trees has just failed on the second tree, after an earlier
\* sync had succeeded.
C1_Witness ==
    /\ result.op = "sync_to" /\ result.status = "VerificationError"
    /\ result.accepted # {}
    /\ synced_block = 1 /\ Len(chain) = 2

\* C2: after a sync has failed root verification, and until reset, no later
\* sync_to call inserts leaves, changes an account notebook, appends to the
\* matched-events log or advances synced_block.
C2_NoWritesAfterFailedVerification ==
    [][(failures > 0 /\ task.pc = "sync_to") =>
           /\ LeavesOf(utxo_trees') = LeavesOf(utxo_trees)
           /\ UNCHANGED <<accounts, matched_events, synced_block>>]_vars

\* C3, Shield-UTXO indexer: a sync runs from synced_block + 1 to at most the
\* latest block, and synced_block is never past the chain head.
C3_UtxoSyncedBlockAtMostLatest ==
    /\ synced_block <= Len(chain)
    /\ task.pc = "sync_to" =>
           /\ task.from_block = synced_block + 1
           /\ task.to_block <= Len(chain)

\* C3: after sync_to(requested) has returned Ok, synced_block is at most the
\* syncer's latest block (here for the Pool-Mix indexer).
C3_SyncedBlockAtMostLatest ==
    (tc_result.op = "sync_to" /\ tc_result.status = "Ok") =>
        tc_synced_block <= Len(tc_chain)

\* Whether an account matches an event: its signer decrypts a note of the
\* event, or it holds an unspent note that the event nullifies.
Matches(account, event) ==
    CASE event.kind \in {"Shield", "Transact"} ->
             \E i \in 1..Len(event.notes) : event.notes[i].owner = account.signer
      [] event.kind = "Nullified" ->
             \E i \in 1..Len(event.nullifier) :
                 \E leaf \in DOMAIN NotebookOf(account, event.treeNumber).unspent :
                     event.nullifier[i] = Nullifier(account.signer, leaf)
      [] OTHER -> FALSE

\* C6: during sync an event is appended to the matched-events log if and only
\* if a registered account matched it, and it is appended at the end, so the
\* log keeps the order of arrival.
C6_LogHoldsMatchedEventsInOrder ==
    [][(task.pc = "sync_to" /\ task.stream # <<>>) =>
           matched_events' =
               IF \E i \in 1..Len(accounts) : Matches(accounts[i], Head(task.stream))
               THEN Append(matched_events, Head(task.stream))
               ELSE matched_events]_vars

\* A sync of two blocks has handled both events: the first matched no account
\* and is not in the log, the second matched and is.
C6_Witness ==
    /\ task.pc = "sync_to" /\ task.stream = <<>>
    /\ task.from_block = 1 /\ task.to_block = 2
    /\ accounts # <<>>
    /\ matched_events = <<chain[2]>>

\* One account handling one event of the log; a Legacy event is not handed to
\* accounts.
AccountHandle(account, event) ==
    IF event.kind = "Legacy" THEN account
    ELSE AccountHandleEvent(account, event).account

\* The events of a log applied in order to one account.
RECURSIVE ApplyLog(_, _, _)
ApplyLog(account, events, i) ==
    IF i > Len(events) THEN account
    ELSE ApplyLog(AccountHandle(account, events[i]), events, i + 1)

\* C7: register(signer) adds an account whose unspent notes are those of the
\* matched-events log applied in order to an empty notebook; it starts no
\* sync, reads nothing from the chain and leaves synced_block and the log
\* unchanged.
C7_RegisterReplaysLog ==
    [][Len(accounts') = Len(accounts) + 1 =>
           /\ UNCHANGED <<synced_block, matched_events, chain, task>>
           /\ LET new == accounts'[Len(accounts')]
              IN unspent(new) =
                     unspent(ApplyLog(IndexedAccount_new(new.signer), matched_events, 1))]_vars

\* An account registered on a log that held a note of its signer and the
\* event spending it: the replay has left the trees to rebuild.
C7_Witness ==
    /\ task.pc = "idle" /\ Len(accounts) = 1
    /\ \E t \in DOMAIN utxo_trees : utxo_trees[t].dirty_parents # {}
    /\ \E t \in DOMAIN accounts[1].notebooks : accounts[1].notebooks[t].spent # EmptyMap

\* The positions of the notes addressed to a signer in the blocks of a range.
NotesFor(signer, from_block, to_block) ==
    UNION {{NotePosition(chain[b].treeNumber, chain[b].startPosition, i - 1) :
               i \in {j \in 1..Len(chain[b].notes) : chain[b].notes[j].owner = signer}} :
              b \in {c \in 1..Len(chain) : from_block <= c /\ c <= to_block}}

\* C8: register_resync(signer, from_block) returns with the account registered
\* and holding, unspent, every note addressed to it in the blocks from
\* from_block to the synced block.
C8_RegisterResyncIndexes ==
    result.op = "register_resync" =>
        /\ result.status = "Ok"
        /\ \E i \in 1..Len(accounts) :
               /\ accounts[i].signer = result.signer
               /\ \A p \in NotesFor(result.signer, result.from_block, synced_block) :
                      /\ p.tree \in DOMAIN accounts[i].notebooks
                      /\ p.leaf \in DOMAIN accounts[i].notebooks[p.tree].unspent

\* The total value of an asset over the positions of the unspent maps.
RECURSIVE TotalAt(_, _, _)
TotalAt(account, asset, positions) ==
    IF positions = {} THEN 0
    ELSE LET p == CHOOSE x \in positions : TRUE
             n == account.notebooks[p[1]].unspent[p[2]]
         IN (IF n.asset = asset THEN n.value ELSE 0)
                + TotalAt(account, asset, positions \ {p})

\* The (tree, leaf) positions of the unspent maps of an account.
UnspentPositions(account) ==
    UNION {{<<t, i>> : i \in DOMAIN account.notebooks[t].unspent} :
              t \in DOMAIN account.notebooks}

\* C9: between calls, an account's balance of an asset is the total value of
\* its decrypted notes of that asset (the notes of its unspent and spent maps)
\* that no processed Nullified event has spent (the notes of the spent map):
\* the balance sums the unspent map, and no note is counted that is in the
\* spent map.
C9_BalanceIsDecryptedMinusNullified ==
    task.pc = "idle" =>
    \A i \in 1..Len(accounts) :
        /\ \A a \in DOMAIN balance(accounts[i]) :
               balance(accounts[i])[a] =
                   TotalAt(accounts[i], a, UnspentPositions(accounts[i]))
        /\ \A t \in DOMAIN accounts[i].notebooks :
               DOMAIN accounts[i].notebooks[t].unspent
                   \cap DOMAIN accounts[i].notebooks[t].spent = {}

\* The notes an account holds in a tree, unspent or spent.
NotesIn(account, t) ==
    {account.notebooks[t].unspent[i] : i \in DOMAIN account.notebooks[t].unspent}
        \cup {account.notebooks[t].spent[i] : i \in DOMAIN account.notebooks[t].spent}

\* The leaves a Shield or Transact event adds to the trees.
EventLeaves(event) ==
    IF event.kind = "Transact" THEN event.hash
    ELSE [i \in 1..Len(event.notes) |->
             PoseidonLeaf(event.notes[i].npk, event.notes[i].asset, event.notes[i].value)]

\* The commitment of a note is stored in the trees at the note's position.
StoredAt(trees, tree_number, leaf_index, commitment) ==
    /\ tree_number \in DOMAIN trees
    /\ leaf_index < leaves_len(trees[tree_number])
    /\ trees[tree_number].tree[1][leaf_index + 1] = commitment

\* C10: the leaves of a Shield or Transact event starting at (tree, start) go
\* to consecutive positions, those with start + index >= 2^D to tree + 1 at
\* start + index - 2^D; a note of a notebook is recorded at the position where
\* the trees store its commitment; no tree holds more than 2^D leaves.
C10_LeavesAndNotesAtSamePosition ==
    /\ [](/\ \A t \in DOMAIN utxo_trees : leaves_len(utxo_trees[t]) <= TOTAL_LEAVES
          /\ \A i \in 1..Len(accounts) :
                 \A t \in DOMAIN accounts[i].notebooks :
                     \A n \in NotesIn(accounts[i], t) :
                         /\ n.tree_number = t
                         /\ StoredAt(utxo_trees, t, n.leaf_index,
                                     PoseidonLeaf(n.npk, n.asset, n.value)))
    /\ [][(/\ task.pc = "sync_to" /\ task.stream # <<>>
           /\ Head(task.stream).kind \in {"Shield", "Transact"}) =>
              LET event == Head(task.stream)
                  leaves == EventLeaves(event)
              IN \A index \in 0..(Len(leaves) - 1) :
                     IF event.startPosition + index >= TOTAL_LEAVES
                     THEN StoredAt(utxo_trees', event.treeNumber + 1,
                                   event.startPosition + index - TOTAL_LEAVES,
                                   leaves[index + 1])
                     ELSE StoredAt(utxo_trees', event.treeNumber,
                                   event.startPosition + index, leaves[index + 1])]_vars

\* An account holds a note of the second tree that came with an event starting
\* in the first tree.
C10_Witness ==
    \E i \in 1..Len(accounts) :
        /\ 1 \in DOMAIN accounts[i].notebooks
        /\ \E n \in NotesIn(accounts[i], 1) :
               \E b \in 1..Len(chain) :
                   /\ chain[b].kind \in {"Shield", "Transact"}
                   /\ chain[b].treeNumber = 0
                   /\ chain[b].startPosition + Len(chain[b].notes) > TOTAL_LEAVES
                   /\ \E j \in 1..Len(chain[b].notes) : chain[b].notes[j].npk = n.npk

(* ------------------------ await_commitments claims ----------------------- *)

\* The commitment hashes carried by the Transact events of the chain.
TransactHashes(events) ==
    UNION {{events[b].hash[i] : i \in 1..Len(events[b].hash)} :
              b \in {c \in 1..Len(events) : events[c].kind = "Transact"}}

AwaitStepsAsCoded ==
    /\ (waiter.pc = "loop" /\ waiter'.pc = "returned") =>
           (/\ result.op = "sync_to"
            /\ (waiter'.status = "Ok") <=>
                   (/\ result.status = "Ok"
                    /\ has_commitments(seen_commitments, waiter.commitments))
            /\ (waiter'.status = "Timeout") <=>
                   (/\ result.status = "Ok"
                    /\ ~has_commitments(seen_commitments, waiter.commitments))
            /\ (result.status # "Ok") => (waiter'.status = result.status))
    /\ (waiter.pc = "loop" /\ waiter'.pc = "sleep") =>
           (/\ result.status = "Ok"
            /\ ~has_commitments(seen_commitments, waiter.commitments)
            /\ now - waiter.start < waiter.timeout)
    /\ (waiter.pc = "sleep" /\ waiter'.pc = "loop") =>
           (now' - now >= PollInterval)

C11_TimeoutWitness ==
    /\ waiter.pc = "returned"
    /\ waiter.status = "Timeout"
    /\ waiter.timeout > 0

(* --------------------------- note syncer claims -------------------------- *)

\* The events of a stream come in chain order.
InChainOrder(events) ==
    \A i, j \in 1..Len(events) : i < j => events[i].block <= events[j].block

\* C12: of any two events delivered by one sync(from, to) call of a syncer,
\* the one that is earlier on chain is delivered first, whatever their kinds.
C12_DeliveredInChainOrder ==
    InChainOrder(delivered.events)

\* The RPC syncer delivers the events of its range in chain order.
C12_RpcDeliveredInChainOrder ==
    delivered.syncer = "rpc" =>
        /\ InChainOrder(delivered.events)
        /\ delivered.events = get_logs(SubSeq(chain, 1, delivered.latest),
                                       delivered.from_block, delivered.to_block)

\* The Subsquid syncer delivers the events of one kind in chain order.
C12_SubsquidKindInChainOrder ==
    delivered.syncer = "subsquid" =>
        \A kind \in {"Shield", "Transact", "Legacy", "Nullified"} :
            InChainOrder(SelectSeq(delivered.events, LAMBDA e : e.kind = kind))

(* ----------------------- PoiProvider::broadcast claims ------------------- *)

C13_TimeoutWitness ==
    /\ bc.pc = "returned"
    /\ bc.status = "Timeout"

\* A broadcast returned Ok on the broadcaster's transaction hash with the
\* commitments not on chain.
C13_TxHashWitness ==
    /\ bc.pc = "returned"
    /\ bc.status = "Ok"
    /\ bc.first = "left"
    /\ ~(bc.commitments \subseteq TransactHashes(chain))

(* ---------------------- dropped sync future claims ----------------------- *)

\* What a step that drops a sync, or completes the sync that took up the
\* range of a dropped one, does to the block counter and the trees.
DroppedSyncSteps ==
    /\ (task.pc = "sync_to" /\ probe'.pc = "cancelled") =>
           synced_block' = synced_block
    /\ (/\ probe.pc = "resumed" /\ task.pc = "sync_to" /\ task'.pc = "idle"
        /\ result'.status = "Ok") =>
           (/\ utxo_trees' = probe.expected
            /\ synced_block' = probe.to_block)

Balanced(op) ==
    exact_sum(ValuesOf(op.in_notes))
        = exact_sum(ValuesOf(op.out_notes)) + unshield_value(op)

WithinLimits(op) ==
    /\ Len(op.in_notes) <= NOTE_LIMIT
    /\ Len(op.out_notes) + Len(op.unshield_note) <= NOTE_LIMIT

\* The drafts of the last build with their selected notes.
BuiltDrafts ==
    LET draft == draft_operations(built.transfers, built.unshields)
    IN  [k \in DOMAIN draft |->
            [draft[k] EXCEPT
                !.in_notes = select_in_notes(k[1], k[2],
                                             Operation_out_value(draft[k]),
                                             built.in_notes)]]

\* What a drafted operation asks for, and what its sender holds of its asset.
Requested(op) == exact_sum(ValuesOf(op.out_notes)) + unshield_value(op)

Funds(op) ==
    exact_sum(ValuesOf(SelectSeq(built.in_notes,
                                 LAMBDA n : n.owner = op.from /\ n.asset = op.asset)))

\* C15: every operation build_operations returns is balanced (inputs = outputs
\* + unshield), spends at most NOTE_LIMIT notes and creates at most NOTE_LIMIT
\* counting the unshield; and a build with a draft its sender's notes do not
\* cover returns a build error and no operation.
C15_BuiltOperationsBalanced ==
    /\ built.outcome.status = "Ok"
          => \A op \in built.outcome.operations : Balanced(op) /\ WithinLimits(op)
    /\ (/\ built.outcome.status # "None"
        /\ \E k \in DOMAIN BuiltDrafts :
              Funds(BuiltDrafts[k]) < Requested(BuiltDrafts[k]))
          => (built.outcome.status = "Err" /\ built.outcome.operations = {})

\* C15, where no addition of the build overflows and no selection spans two
\* trees: the returned operations are balanced and within the limits, and an
\* uncovered draft yields a build error and no operation.
C15_BalancedWhereNothingOverflows ==
    (/\ built.outcome.status # "None"
     /\ \A k \in DOMAIN BuiltDrafts :
           /\ ~Overflows(BuiltDrafts[k])
           /\ split_trees(BuiltDrafts[k]).status # "Panic")
      => /\ built.outcome.status = "Ok"
            => \A op \in built.outcome.operations :
                   Balanced(op) /\ WithinLimits(op)
         /\ (\E k \in DOMAIN BuiltDrafts :
                Funds(BuiltDrafts[k]) < Requested(BuiltDrafts[k]))
               => (built.outcome.status = "Err" /\ built.outcome.operations = {})

\* A release build returned an operation whose outputs exceed its inputs.
C15_OverflowWitness ==
    /\ built.outcome.status = "Ok"
    /\ ~built.overflow_checks
    /\ \E op \in built.outcome.operations : ~Balanced(op)

\* The trees the notes lie in.
TreesOf(notes) == {notes[i].tree_number : i \in DOMAIN notes}

\* C16: the inputs of a returned operation all lie in the tree the operation
\* names; and a build with a draft whose selected notes span several trees
\* does not abort: if it returns operations, it returns one for each tree of
\* that draft's selection.
C16_SpanningDraftsAreSplit ==
    /\ built.outcome.status = "Ok"
          => \A op \in built.outcome.operations :
                 TreesOf(op.in_notes) = {op.utxo_tree_number}
    /\ \A k \in DOMAIN BuiltDrafts :
          (/\ built.outcome.status # "None"
           /\ Cardinality(TreesOf(BuiltDrafts[k].in_notes)) > 1)
            => /\ built.outcome.status \in {"Ok", "Err"}
               /\ built.outcome.status = "Ok"
                     => \A t \in TreesOf(BuiltDrafts[k].in_notes) :
                            \E op \in built.outcome.operations :
                                /\ op.from = k[1] /\ op.asset = k[2]
                                /\ op.utxo_tree_number = t

\* C16, the half that holds: the inputs of a returned operation all lie in
\* the tree the operation names, and no returned operation comes from a draft
\* whose selection spans several trees.
C16_ReturnedOperationsSpendOneTree ==
    built.outcome.status = "Ok"
        => /\ \A op \in built.outcome.operations :
                 TreesOf(op.in_notes) = {op.utxo_tree_number}
           /\ \A k \in DOMAIN BuiltDrafts :
                 Cardinality(TreesOf(BuiltDrafts[k].in_notes)) = 1

\* The notes selected for the only draft span two trees and cover it, and the
\* build has panicked in split_trees.
C16_PanicWitness ==
    /\ built.outcome.status = "Panic" /\ built.outcome.error = "todo"
    /\ Cardinality(DOMAIN BuiltDrafts) = 1
    /\ \A k \in DOMAIN BuiltDrafts :
          /\ Cardinality(TreesOf(BuiltDrafts[k].in_notes)) = 2
          /\ Funds(BuiltDrafts[k]) >= Requested(BuiltDrafts[k])
          /\ ~Overflows(BuiltDrafts[k])

(* ----------------------- broadcaster manager claims ---------------------- *)

\* The cached fees a call for the token at the time may return: those of the
\* broadcasters the whitelist lets through, for the token, not expired, with
\* a wallet available.
Eligible(token, current_time) ==
    {p \in UNION {{<<d, f>> : f \in d.token_fees} : d \in broadcasters} :
        /\ whitelisted_broadcasters # {}
              => p[1].railgun_address \in whitelisted_broadcasters
        /\ p[2].token = token
        /\ p[2].expiration > current_time
        /\ p[2].available_wallets > 0}

\* C17: best_broadcaster_for_token returns None exactly when no cached
\* broadcaster is eligible, and otherwise an eligible broadcaster whose fee
\* per unit gas is minimal and whose reliability is the highest among the
\* eligible ones of that fee.
C17_BestBroadcasterIsCheapestEligible ==
    mgr_result.op = "best_broadcaster_for_token"
        => /\ mgr_result.status \in {"None", "Some"}
           /\ mgr_result.status = "None"
                 <=> Eligible(mgr_result.token, mgr_result.current_time) = {}
           /\ mgr_result.status = "Some"
                 => \E p \in Eligible(mgr_result.token, mgr_result.current_time) :
                        /\ p[1].railgun_address = mgr_result.address
                        /\ p[2].fee_per_unit_gas = mgr_result.per_unit_gas
                        /\ p[2].reliability = mgr_result.reliability
                        /\ \A q \in Eligible(mgr_result.token,
                                              mgr_result.current_time) :
                               /\ p[2].fee_per_unit_gas <= q[2].fee_per_unit_gas
                               /\ p[2].fee_per_unit_gas = q[2].fee_per_unit_gas
                                     => p[2].reliability >= q[2].reliability

\* A broadcaster was returned while another eligible one offered the same fee
\* with a lower reliability, and a third cached fee was not eligible.
C17_Witness ==
    /\ mgr_result.op = "best_broadcaster_for_token"
    /\ mgr_result.status = "Some"
    /\ \E q \in Eligible(mgr_result.token, mgr_result.current_time) :
          /\ q[1].railgun_address # mgr_result.address
          /\ q[2].fee_per_unit_gas = mgr_result.per_unit_gas
          /\ q[2].reliability < mgr_result.reliability

\* None was returned although the token has a cached fee: every such fee is
\* expired, without wallet, or of a broadcaster outside the whitelist.
C17_NoneWitness ==
    /\ mgr_result.op = "best_broadcaster_for_token"
    /\ mgr_result.status = "None"
    /\ \E d \in broadcasters : \E f \in d.token_fees : f.token = mgr_result.token

\* C18: start does not return because a subscribe attempt failed.
C18_StartNeverReturnsOnFailedSubscribe == starter.pc # "returned"

\* C18, what start does: it returns only out of a subscribe attempt, and
\* after a stream has ended it sleeps, doubles the backoff up to max_backoff
\* and subscribes again.
StartStepsAsCoded ==
    /\ (starter.pc # "returned" /\ starter'.pc = "returned")
          => starter.pc = "subscribing"
    /\ (starter.pc = "streaming" /\ starter'.pc # "streaming")
          => (starter'.pc = "sleeping" /\ starter'.backoff = starter.backoff)
    /\ (starter.pc = "sleeping" /\ starter'.pc # "sleeping")
          => /\ starter'.pc = "subscribing"
             /\ starter'.backoff \in {starter.backoff * 2, MaxBackoff}
             /\ starter'.backoff <= MaxBackoff

C18_StartReturnsOnlyFromSubscribe == [][StartStepsAsCoded]_vars

\* start has returned the transport's error from a subscribe that followed a
\* backoff sleep.
C18_ReturnedWitness ==
    /\ starter.pc = "returned" /\ starter.backoff = MaxBackoff
    /\ mgr_result.op = "start" /\ mgr_result.status = "Transport"

(* ---------------------- Pool-Mix relayer selection claims ---------------- *)

\* The relayers of the last pick that are of the chain and list the token.
Candidates ==
    {i \in DOMAIN tc_relayers :
        /\ tc_relayers[i].chain_id = picked.chain_id
        /\ picked.token_symbol # <<>>
              => picked.token_symbol[1] \in tc_relayers[i].eth_prices}

Score(i) == weight(tc_relayers[i], picked.chain_id)

\* The scores of the candidates before relayer i, and up to it.
ScoreBefore(i) ==
    cumulative_weight([j \in 1..Len(tc_relayers) |->
                           IF j \in Candidates /\ j < i THEN Score(j) ELSE 0],
                      Len(tc_relayers))

\* C19: pick_relayer returns None exactly when there is no candidate, and
\* otherwise a candidate; a relayer whose fee is at least max_fee has score 0,
\* and no such relayer is returned while a candidate has a positive score.
C19_ZeroScoreNeverPicked ==
    picked.status # "none"
        => /\ picked.status = "None" <=> Candidates = {}
           /\ picked.status = "Some" => picked.index \in Candidates
           /\ \A i \in Candidates :
                 tc_relayers[i].service_fee_percent >= max_fee(picked.chain_id)
                     => Score(i) = 0
           /\ (picked.status = "Some" /\ \E i \in Candidates : Score(i) > 0)
                 => tc_relayers[picked.index].service_fee_percent
                        < max_fee(picked.chain_id)

\* C19, what the sampling does: the candidate returned is one whose stretch of
\* the cumulated scores holds the target rng * total (ends included), so over
\* a uniform rng each candidate is returned in proportion to its score; a
\* candidate of score 0 is returned only as the first candidate, when no
\* candidate has a positive score or the rng has yielded 0.
C19_PickedWhereTargetFalls ==
    picked.status # "none"
        => /\ picked.status = "None" <=> Candidates = {}
           /\ picked.status = "Some" => picked.index \in Candidates
           /\ (picked.status = "Some" /\ \E i \in Candidates : Score(i) > 0)
                 => /\ ScoreBefore(picked.index) * RNG_STEPS
                          <= picked.rng * ScoreBefore(Len(tc_relayers) + 1)
                    /\ picked.rng * ScoreBefore(Len(tc_relayers) + 1)
                          <= (ScoreBefore(picked.index) + Score(picked.index))
                                 * RNG_STEPS
                    /\ Score(picked.index) = 0
                          => (/\ picked.rng = 0
                              /\ \A i \in Candidates : picked.index <= i)

\* A relayer whose fee is max_fee or more was returned while another
\* candidate had a positive score.
C19_ZeroScoreWitness ==
    /\ picked.status = "Some"
    /\ tc_relayers[picked.index].service_fee_percent >= max_fee(picked.chain_id)
    /\ \E i \in Candidates : Score(i) > 0

\* A candidate of positive score was returned past another candidate of
\* positive score.
C19_WeightedWitness ==
    /\ picked.status = "Some"
    /\ Score(picked.index) > 0
    /\ \E i \in Candidates : i < picked.index /\ Score(i) > 0

(* --------------------- Pool-Mix broadcast preparation claims ------------- *)

\* C20: the fee handed to withdraw_calldata for the final proof is the sum of
\* the relayer's service fee and the gas cost in the pool's token, multiplied
\* by 1.3 (up to the rounding of the product to an integer).
C20_FinalFeeIsBuffered ==
    prepared.pc \in {"calldata", "returned"} /\ prepared.status \in {"None", "Ok"}
        => /\ prepared.fee * 10
                 >= (prepared.relayer_fee + prepared.gas_cost_in_token) * 13 - 9
           /\ prepared.fee * 10
                 <= (prepared.relayer_fee + prepared.gas_cost_in_token) * 13 + 9

\* C20, what the code computes: the fee of the final proof is the service fee
\* (the pool's denomination times the relayer's fee percent, rounded down)
\* plus the gas cost in the pool's token, with no buffer.
C20_FinalFeeIsServicePlusGas ==
    prepared.pc \in {"calldata", "returned"} /\ prepared.status \in {"None", "Ok"}
        => /\ prepared.relayer \in DOMAIN tc_relayers
           /\ prepared.relayer_fee =
                  (prepared.pool.amount_wei
                       * tc_relayers[prepared.relayer].service_fee_percent) \div 10000
           /\ prepared.fee = prepared.relayer_fee + prepared.gas_cost_in_token

\* A broadcast was prepared with a service fee and a gas cost that are both
\* positive.
C20_Witness ==
    /\ prepared.pc = "returned" /\ prepared.status = "Ok"
    /\ prepared.relayer_fee > 0 /\ prepared.gas_cost_in_token > 0
    /\ prepared.pool.asset # <<>>

(* ----------------------- relayer job polling claims ----------------------- *)

TerminalStatuses == {"CONFIRMED", "FAILED"}

\* C21 as stated: once a job is submitted the provider polls it, so the wait
\* ends only with the confirmed transaction hash after a CONFIRMED poll, with
\* the job-failed error after a FAILED poll, with the timeout error after the
\* 120 seconds, or with the error of a request that failed.
C21_SubmittedJobIsPolled ==
    job.pc = "done" =>
        \/ job.result.status = "Ok" /\ job.status = "CONFIRMED"
        \/ job.result.status = "JobFailed" /\ job.status = "FAILED"
        \/ job.result.status = "JobTimeout" /\ job.checked_at > JOB_TIMEOUT
        \/ job.result.status = "Http"

\* C21 on a native build: Ok carries the hash of the CONFIRMED poll and
\* JobFailed follows a FAILED poll; the loop goes on exactly on the other
\* statuses; polls are JOB_POLL_INTERVAL apart or more; a poll is started
\* only when the clock read at the head of the loop was within JOB_TIMEOUT,
\* and JobTimeout is returned when it was beyond.
C21_NativePolling ==
    job.target = "native" =>
        /\ job.result.status = "Ok" =>
               job.status = "CONFIRMED" /\ job.result.tx_hash = job.tx_hash
        /\ job.result.status = "JobFailed" => job.status = "FAILED"
        /\ job.result.status = "JobTimeout" =>
               /\ job.checked_at > JOB_TIMEOUT
               /\ job.status \notin TerminalStatuses
        /\ job.pc \in {"check", "sleep", "get"} =>
               /\ job.status \notin TerminalStatuses
               /\ job.result.status = "None"
        /\ job.status \in TerminalStatuses => job.result.status \in {"Ok", "JobFailed"}
        /\ job.pc \in {"sleep", "get"} => job.checked_at <= JOB_TIMEOUT
        /\ job.pc = "get" => job.polled_at = job.checked_at + JOB_POLL_INTERVAL
        /\ job.prev_polled_at >= 0 =>
               job.polled_at - job.prev_polled_at >= JOB_POLL_INTERVAL
        /\ job.polled_at <= JOB_TIMEOUT + JOB_POLL_INTERVAL

\* The wasm32 build has panicked before the first poll.
C21_PanicWitness ==
    /\ job.target = "wasm32"
    /\ job.pc = "done"
    /\ job.result.status = "Panic"
    /\ job.polled_at = -1

\* A native wait that polled a non-terminal status and then CONFIRMED.
C21_ConfirmedWitness ==
    /\ job.target = "native"
    /\ job.result.status = "Ok"
    /\ job.prev_polled_at >= 0
    /\ job.result.tx_hash = 7

\* A native wait that timed out after polling past the 120 seconds.
C21_TimeoutWitness ==
    /\ job.result.status = "JobTimeout"
    /\ job.polled_at > JOB_TIMEOUT

(* ---------------------------- snapshot claims ----------------------------- *)

\* C22 as stated: the tree restored from a snapshot has the state of the
\* original and, after rebuild on both, the root of the original, also when
\* the original held inserted leaves that were not yet rebuilt.
C22_RestoredTreeIsEquivalent ==
    /\ snap.stage = "restored" =>
           MerkleTree_state(snap.restored) = MerkleTree_state(snap.original)
    /\ snap.stage = "rebuilt" => root(snap.restored) = root(snap.original)

\* C22 as the code has it: the restored tree has the state of the snapshot
\* and no dirty parents, so its rebuild changes nothing; it reaches the root
\* of the original when the original had no dirty parents at the snapshot.
C22_RestoredTreeKeepsSnapshot ==
    /\ snap.stage = "restored" =>
           /\ MerkleTree_state(snap.restored) = MerkleTree_state(snap.original)
           /\ snap.restored.dirty_parents = {}
    /\ snap.stage = "rebuilt" =>
           /\ MerkleTree_state(snap.restored) = snap.snapshot
           /\ snap.clean => root(snap.restored) = root(snap.original)

\* A tree snapshotted with leaves not yet rebuilt: after rebuild on both the
\* roots differ.
C22_StaleRootWitness ==
    /\ snap.stage = "rebuilt"
    /\ ~snap.clean
    /\ root(snap.restored) # root(snap.original)

\* A rebuilt tree with leaves, restored and rebuilt again, with equal roots.
C22_CleanWitness ==
    /\ snap.stage = "rebuilt"
    /\ snap.clean
    /\ leaves_len(snap.original) > 0
    /\ root(snap.restored) = root(snap.original)

(* ----------------------------- base37 claims ------------------------------ *)

\* The text without the spaces it begins with.
RECURSIVE trim_start(_)
trim_start(s) ==
    IF s # <<>> /\ s[1] = " " THEN trim_start(Tail(s)) ELSE s

OverCharset(s) == \A i \in 1..Len(s) : position(s[i]) # 0

\* C23 as stated: decode(encode(s)) = s for every s over the charset that
\* fits the encoding.
C23_RoundTrip ==
    (codec.stage = "decoded" /\ OverCharset(codec.text)) =>
        codec.decoded = codec.text

\* C23 amended: encode accepts exactly the texts over the charset whose base37
\* value fits the encoding; decode(encode(s)) is s without its leading
\* spaces, hence s itself when s does not begin with a space.
C23_RoundTripUpToLeadingSpaces ==
    /\ codec.stage # "none" =>
           /\ codec.encoded.status = "InvalidCharacter" <=> ~OverCharset(codec.text)
           /\ codec.encoded.status = "Ok" =>
                  Len(codec.encoded.bytes) = ENCODED_BYTES
    /\ codec.stage = "decoded" =>
           /\ codec.decoded = trim_start(codec.text)
           /\ (codec.text = <<>> \/ codec.text[1] # " ") =>
                  codec.decoded = codec.text
           /\ encode(codec.decoded) = codec.encoded

\* A text of several characters with a space inside has made the round trip.
C23_Witness ==
    /\ codec.stage = "decoded"
    /\ Len(codec.text) >= 3
    /\ codec.text[1] # " "
    /\ \E i \in 2..Len(codec.text) : codec.text[i] = " "
    /\ codec.text[1] # codec.text[Len(codec.text)]
    /\ codec.decoded = codec.text

\* A text that begins with a space has come back shorter.
C23_LeadingSpaceWitness ==
    /\ codec.stage = "decoded"
    /\ codec.text # <<>>
    /\ codec.text[1] = " "
    /\ Len(codec.decoded) < Len(codec.text)

\* A text over the charset that does not fit the encoding.
C23_TooLongWitness ==
    /\ codec.encoded.status = "OutputTooLong"
    /\ OverCharset(codec.text)

(* --------------------------- note string claims --------------------------- *)

NoHyphen(s) == \A i \in 1..Len(s) : s[i] # "-"

\* C24 as stated: for every note, parsing its string succeeds and returns the
\* note.
C24_NoteRoundTrip ==
    notestr.stage = "decoded" =>
        /\ notestr.decoded.status = "Ok"
        /\ notestr.decoded.note = notestr.note

\* C24 amended: parsing the string of a note returns the note when neither
\* the symbol nor the amount holds a hyphen, and fails otherwise.
C24_NoteRoundTripWithoutHyphens ==
    notestr.stage = "decoded" =>
        IF NoHyphen(notestr.note.symbol) /\ NoHyphen(notestr.note.amount)
        THEN /\ notestr.decoded.status = "Ok"
             /\ notestr.decoded.note = notestr.note
        ELSE notestr.decoded.status \in {"InvalidChainId", "InvalidHex"}

\* A note with a symbol, an amount, a chain id of two digits and a nullifier
\* other than its secret has made the round trip.
C24_Witness ==
    /\ notestr.stage = "decoded"
    /\ notestr.decoded.status = "Ok"
    /\ notestr.decoded.note = notestr.note
    /\ notestr.note.symbol # <<>>
    /\ notestr.note.amount # <<>>
    /\ notestr.note.chain_id >= 10
    /\ notestr.note.nullifier # notestr.note.secret

\* The string of a note whose symbol holds a hyphen has failed to parse.
C24_HyphenWitness ==
    /\ notestr.stage = "decoded"
    /\ ~NoHyphen(notestr.note.symbol)
    /\ notestr.decoded.status # "Ok"

(* --------------------------- TxID tree set claims ------------------------- *)

\* The leaves of the trees in the order of their global positions.
RECURSIVE LeavesInOrder(_, _)
LeavesInOrder(trees, numbers) ==
    IF numbers = {} THEN <<>>
    ELSE LET n == MinOf(numbers)
         IN  trees[n].tree[1] \o LeavesInOrder(trees, numbers \ {n})

TxidLeaves == LeavesInOrder(txid_set.trees, DOMAIN txid_set.trees)

\* C25: the pending queue is FIFO.  An update drains at most target_total -
\* current_total operations, from the front; the operations inserted so far
\* followed by the queue are the operations in enqueue order, so the k-th
\* operation enqueued sits at tree k div TOTAL_LEAVES, index k mod
\* TOTAL_LEAVES, which is also the position recorded for its TxID.
C25_PendingQueueIsFifo ==
    /\ TxidLeaves \o txid_set.pending = txid_log.enqueued
    /\ \A n \in DOMAIN txid_set.trees :
           /\ \A m \in 0..n : m \in DOMAIN txid_set.trees
           /\ n < MaxOf(DOMAIN txid_set.trees) =>
                  leaves_len(txid_set.trees[n]) = TOTAL_LEAVES
    /\ \A k \in 0..(Len(TxidLeaves) - 1) :
           /\ txid_log.enqueued[k + 1] \in DOMAIN txid_set.txid_to_txid_pos
           /\ txid_set.txid_to_txid_pos[txid_log.enqueued[k + 1]]
                  = <<k \div TOTAL_LEAVES, k % TOTAL_LEAVES>>
           /\ txid_set.trees[k \div TOTAL_LEAVES].tree[1][(k % TOTAL_LEAVES) + 1]
                  = TxidLeafHash_new(txid_log.enqueued[k + 1])
    /\ txid_result.status # "None" =>
           /\ Len(txid_result.drained) <= txid_result.to_drain
           /\ txid_result.to_drain > 0 =>
                  txid_result.before + txid_result.to_drain <= agg_validated
           /\ txid_result.drained =
                  SubSeq(txid_log.enqueued, txid_result.before + 1,
                         txid_result.before + Len(txid_result.drained))

\* An update has drained several operations across a tree boundary, the
\* operations having been enqueued out of the canonical order.
C25_Witness ==
    /\ Len(txid_result.drained) >= 2
    /\ 1 \in DOMAIN txid_set.trees
    /\ txid_result.before < TOTAL_LEAVES
    /\ txid_log.enqueued[1] # 1

\* An update has drained a part of the queue and left the rest.
C25_PartialDrainWitness ==
    /\ Len(txid_result.drained) >= 1
    /\ Len(txid_set.pending) >= 2

\* The root triple update would ask the aggregator about.
LatestTriple ==
    LET n == MaxOf(DOMAIN txid_set.trees)
    IN  [tree |-> n, index |-> leaves_len(txid_set.trees[n]) - 1,
         merkleroot |-> root(txid_set.trees[n])]

\* C26 as stated: whenever update() returns Ok and a TxID tree exists, the
\* aggregator has accepted the root of the latest tree at its last leaf.
C26_OkMeansRootAccepted ==
    (txid_result.status = "Ok" /\ DOMAIN txid_set.trees # {}) =>
        LatestTriple \in txid_log.accepted

\* C26 as the code has it: an update that drains asks the aggregator about
\* the latest tree and returns Ok only on its acceptance, RootMismatch on its
\* rejection; an update with nothing to drain returns Ok unasked.
C26_DrainingUpdateValidates ==
    /\ (txid_result.status = "Ok" /\ txid_result.to_drain > 0
            /\ DOMAIN txid_set.trees # {}) =>
           /\ txid_result.asked = LatestTriple
           /\ LatestTriple \in txid_log.accepted
           /\ txid_set.validated_index = Len(TxidLeaves)
    /\ txid_result.status = "RootMismatch" =>
           /\ txid_result.asked = LatestTriple
           /\ ~AggregatorValidates(LatestTriple.tree, LatestTriple.index,
                                   LatestTriple.merkleroot)
    /\ (txid_result.status = "Ok" /\ txid_result.to_drain = 0) =>
           txid_result.asked = NoTriple
    /\ \A t \in txid_log.accepted :
           AggregatorValidates(t.tree, t.index, t.merkleroot)

\* update() has returned Ok over a tree the aggregator rejects.
C26_RejectedRootWitness ==
    /\ txid_result.status = "Ok"
    /\ DOMAIN txid_set.trees # {}
    /\ ~AggregatorValidates(LatestTriple.tree, LatestTriple.index,
                            LatestTriple.merkleroot)

\* update() has returned Ok on the aggregator's acceptance of a second tree.
C26_AcceptedWitness ==
    /\ txid_result.status = "Ok"
    /\ txid_result.to_drain > 0
    /\ 1 \in DOMAIN txid_set.trees
    /\ LatestTriple \in txid_log.accepted

(* ----------------------- pending POI submitter claims --------------------- *)

PendingIds == {poi_pending[k].id : k \in 1..Len(poi_pending)}

EntriesBefore == {poi_result.before[k] : k \in 1..Len(poi_result.before)}

\* C27: process removes an entry only after the proofs of its list keys were
\* generated and submit_operation returned Ok for them; an entry whose TxID
\* has no position in the TxID tree is skipped and stays in the queue; the
\* entries removed are the ones process reports.
C27_RemovedOnlyAfterSubmission ==
    /\ PendingIds \cup poi_log.removed = 1..poi_log.registered
    /\ PendingIds \cap poi_log.removed = {}
    /\ poi_result.status # "None" =>
           \A e \in EntriesBefore :
               /\ e.id \notin PendingIds =>
                      /\ poi_result.known[e.txid] = "both"
                      /\ e.list_keys > 0 =>
                             poi_result.answers[e.id] \in {"submitted", "null_result"}
                      /\ \E k \in 1..Len(poi_result.submitted) :
                             poi_result.submitted[k] = e.id
               /\ poi_result.known[e.txid] # "both" => e.id \in PendingIds

\* A process call has removed a submitted entry and kept one whose TxID has
\* no position yet and one whose submission failed.
C27_Witness ==
    /\ poi_result.status = "PoiClient"
    /\ Len(poi_result.before) = 3
    /\ Len(poi_pending) = 2
    /\ \E e \in EntriesBefore :
           e.id \in PendingIds /\ poi_result.known[e.txid] = "none"
    /\ \E e \in EntriesBefore :
           /\ e.id \in PendingIds
           /\ poi_result.known[e.txid] = "both"
           /\ poi_result.answers[e.id] = "submit_error"

\* C28: the entries that remain in the pending queue keep the relative order
\* of their registration, whatever the drains removed.
C28_RemainingKeepRegistrationOrder ==
    /\ \A i, j \in 1..Len(poi_pending) :
           i < j => poi_pending[i].id < poi_pending[j].id
    /\ poi_result.status # "None" =>
           poi_pending =
               SelectSeq(poi_result.before, LAMBDA e : e.id \in PendingIds)

\* A drain has removed the middle one of three entries.
C28_Witness ==
    /\ poi_result.status = "Ok"
    /\ Len(poi_result.before) = 3
    /\ Len(poi_pending) = 2
    /\ poi_pending[1].id = 1
    /\ poi_pending[2].id = 3

(* ------------------------ Broadcaster::send claims ------------------------ *)

\* The payload opens under the shared secret of the request in flight.
DecryptsForRequest(payload) ==
    payload.parses /\ payload.key = sender.shared_secret

\* C29: a call of send is ended by a message only if that message parses
\* and decrypts under the request's shared secret, on the live subscription
\* and on historical retrieval alike; every other message it has handled is
\* in `seen` and the call went on. A call that ended with a hash reports the
\* hash of such a message.
C29_OnlyDecryptableEndsRequest ==
    /\ sender.result.status \in {"Ok", "Serde", "InvalidResponse"}
           => /\ sender.pc = "done"
              /\ sender.channel \in {"filter", "store"}
              /\ DecryptsForRequest(sender.ended_by)
    /\ sender.result.status \in {"None", "Timeout", "Transport"}
           => sender.ended_by = NoPayload /\ sender.channel = "none"
    /\ sender.result.status = "Ok"
           => /\ sender.ended_by.body = "txHash"
              /\ sender.result.tx_hash = ReportedTxHash
    /\ \A payload \in sender.seen :
           DecryptsForRequest(payload) => payload = sender.ended_by

\* Garbage and a response to another request were handled and passed over,
\* and the call ended with the hash of a response found by a Store poll.
C29_Witness ==
    /\ sender.pc = "done"
    /\ sender.result.status = "Ok"
    /\ sender.channel = "store"
    /\ Garbage \in sender.seen
    /\ [parses |-> TRUE, key |-> 2, body |-> "txHash"] \in sender.seen

\* The same on the live subscription, ending with the relayer's error.
C29_FilterWitness ==
    /\ sender.pc = "done"
    /\ sender.result.status = "InvalidResponse"
    /\ sender.channel = "filter"
    /\ Garbage \in sender.seen
    /\ [parses |-> TRUE, key |-> 2, body |-> "error"] \in sender.seen

\* The slack of the loop's clock: one sleep and the longest retrieval.
LoopSlackMs == (MaxSlowSleeps + 1) * SLEEP_MS

\* What holds of the clock of a call of send at every moment.
SendTiming ==
    /\ sender.pc = "done"
           => sender.result.status
                  \in {"Ok", "Serde", "InvalidResponse", "Transport", "Timeout"}
    /\ sender.pc # "done" => sender.result.status = "None"
    /\ sender.result.status = "Timeout"
           => /\ sender.elapsed >= TIMEOUT_MS
              /\ sender.elapsed < TIMEOUT_MS + LoopSlackMs
              /\ sender.ended_by = NoPayload
    /\ sender.prev_send >= 0
           => /\ sender.last_send - sender.prev_send >= RESEND_INTERVAL_MS
              /\ sender.last_send - sender.prev_send
                     < RESEND_INTERVAL_MS + LoopSlackMs
    /\ sender.polls > 0
           => /\ sender.last_store_poll - sender.prev_store_poll >= RETRY_DELAY_MS
              /\ sender.last_store_poll - sender.prev_store_poll
                     < RETRY_DELAY_MS + LoopSlackMs
    /\ sender.pc \in {"top", "store", "resend", "sleep"}
           => /\ sender.elapsed - sender.last_send
                     < RESEND_INTERVAL_MS + LoopSlackMs
              /\ sender.elapsed - sender.last_store_poll
                     < RETRY_DELAY_MS + LoopSlackMs
              /\ sender.elapsed < TIMEOUT_MS + LoopSlackMs

\* C30: every call of send ends, with the reported hash, with an error, or
\* with Timeout, and Timeout only once 120 s have passed with no response
\* that decrypts; until then the request is published again 30 s after the
\* last publication and Store is polled 5 s (retry_delay) after the last
\* poll, to within one pass of the loop.
C30_SendTerminates ==
    /\ []SendTiming
    /\ (sender.pc \in {"top", "store", "resend", "sleep"}) ~> (sender.pc = "done")

\* A call that saw no response ended with Timeout after the first
\* publication, three more and twenty-three Store polls.
C30_Witness ==
    /\ sender.pc = "done"
    /\ sender.result.status = "Timeout"
    /\ sender.sends = 4
    /\ sender.polls = 23

(* ----------------------- SubsquidSyncer retry claims ---------------------- *)

\* The requests of the call that failed in transport, in status or in decoding.
FailedRequests == SelectSeq(gql.requests, LAMBDA outcome : IsRequestError(outcome))

\* C31 as stated: the error of a failing request is surfaced only after the
\* first attempt and three retries, with a pause before each retry.
C31_RetriedThreeTimes ==
    (gql.pc = "done" /\ gql.result # "Data")
        => /\ Len(gql.requests) = 1 + MAX_RETRIES
           /\ gql.sleeps = MAX_RETRIES

\* C31: a call sends at most MAX_RETRIES = 3 requests, with a pause of
\* RETRY_DELAY = 1 s before each one after the first; a transport, status or
\* decoding error is surfaced exactly when the third request has failed so,
\* that is after two retries; a response that carries GraphQL errors or no
\* data ends the call with that error at once, without a retry.
C31_ThreeAttemptsBounded ==
    /\ Len(gql.requests) <= MAX_RETRIES
    /\ gql.attempts = Len(FailedRequests)
    /\ gql.elapsed = gql.sleeps * RETRY_DELAY
    /\ gql.pc \in {"request", "done"}
           => /\ gql.sleeps = Len(gql.requests) - (IF gql.pc = "done" THEN 1 ELSE 0)
              /\ gql.sleeps = gql.attempts - (IF IsRequestError(gql.result) THEN 1 ELSE 0)
    /\ (gql.pc = "done" /\ IsRequestError(gql.result))
           => /\ Len(gql.requests) = MAX_RETRIES
              /\ gql.sleeps = MAX_RETRIES - 1
              /\ \A i \in 1..Len(gql.requests) : IsRequestError(gql.requests[i])
              /\ gql.result = gql.requests[MAX_RETRIES]
    /\ (gql.pc = "done" /\ ~IsRequestError(gql.result))
           => gql.result = gql.requests[Len(gql.requests)]
    /\ \A i \in 1..Len(gql.requests) :
           ~IsRequestError(gql.requests[i])
               => i = Len(gql.requests) /\ gql.pc = "done"

\* Three requests failed and the error of the third is returned after two
\* pauses.
C31_Witness ==
    /\ gql.pc = "done"
    /\ gql.result = "ServerError"
    /\ gql.requests = <<"Reqwest", "Decode", "ServerError">>
    /\ gql.elapsed = 2 * RETRY_DELAY

\* GraphQL errors in the first response end the call with no retry.
C31_GraphqlErrorsWitness ==
    /\ gql.pc = "done"
    /\ gql.result = "GraphqlErrors"
    /\ Len(gql.requests) = 1
    /\ gql.sleeps = 0

(* -------------------------- failing fetch claims -------------------------- *)

\* The events of a sequence, a Nullified event counted per nullifier.
EntitiesOf(events) ==
    LET entities == SquidEntities(events)
    IN  {entities[i] : i \in 1..Len(entities)}

\* The last sync_to returned Ok and moved synced_block to its target.
FetchAdvanced ==
    /\ fetcher.result.op = "sync_to"
    /\ fetcher.result.status = "Ok"
    /\ fetcher.result.from_block <= fetcher.result.to_block
    /\ fetcher.synced_block = fetcher.result.to_block

\* What the chain holds for the blocks of the last sync_to.
FetchRange ==
    get_logs(chain, fetcher.result.from_block, fetcher.result.to_block)

\* C32 as stated: when sync_to returns Ok and advances synced_block, every
\* event the chain holds for the blocks of its range was in the stream it
\* applied, also when a fetch inside the syncer failed.
C32_OkSyncAppliedEveryEvent ==
    FetchAdvanced => EntitiesOf(FetchRange) \subseteq EntitiesOf(fetcher.result.stream)

\* What holds: a sync_to during which no fetch failed applies every event of
\* its range, and a sync_to applies nothing from outside its range.
C32_CompleteWhenNoFetchFails ==
    /\ (FetchAdvanced /\ fetcher.result.failure = NoFailure)
           => EntitiesOf(FetchRange) = EntitiesOf(fetcher.result.stream)
    /\ fetcher.result.op = "sync_to"
           => EntitiesOf(fetcher.result.stream) \subseteq EntitiesOf(FetchRange)

\* get_logs failed for the second block of the range, which holds
\* commitments, and sync_to returned Ok with synced_block at that block.
C32_SkippedBlockWitness ==
    /\ FetchAdvanced
    /\ fetcher.result.syncer = "rpc"
    /\ fetcher.result.from_block = 1
    /\ fetcher.result.to_block = 2
    /\ fetcher.result.failure.rpc = {2}
    /\ Len(fetcher.result.stream) = 1
    /\ chain[2].kind \in {"Shield", "Transact"}

\* The first page of nullifiers failed and sync_to returned Ok.
C32_LostNullifierWitness ==
    /\ FetchAdvanced
    /\ fetcher.result.syncer = "subsquid"
    /\ fetcher.result.failure = [NoFailure EXCEPT !.nullifieds = 1]
    /\ \E i \in 1..Len(FetchRange) : FetchRange[i].kind = "Nullified"
    /\ \A i \in 1..Len(fetcher.result.stream) :
           fetcher.result.stream[i].kind # "Nullified"

\* A sync in which no fetch failed has applied the two blocks of its range.
C32_CompleteWitness ==
    /\ FetchAdvanced
    /\ fetcher.result.failure = NoFailure
    /\ Len(fetcher.result.stream) >= 2

(* ------------------------ clean trees between calls ----------------------- *)

\* C33 as stated: whenever no call is running on the indexer, that is after
\* sync_to, register, set_state or reset has returned, no UTXO tree has
\* dirty parents.
C33_IdleTreesAreClean ==
    task.pc = "idle" => AllRebuilt(utxo_trees)

\* What holds: between calls every node of every tree is the hash of its
\* children, so the root a release build reads is that of the leaves; the
\* dirty set left behind names parents whose leaves were written again with
\* the values they had.
C33_IdleTreesAreCurrent ==
    task.pc = "idle" => \A t \in DOMAIN utxo_trees : NodesConsistent(utxo_trees[t])

\* register has replayed a matched event with a commitment and returned:
\* the tree is dirty with no call running.
C33_DirtyAfterRegisterWitness ==
    /\ task.pc = "idle"
    /\ Len(accounts) = 2
    /\ matched_events # <<>>
    /\ \E t \in DOMAIN utxo_trees : utxo_trees[t].dirty_parents # {}

\* A sync_to has returned Ok with its trees rebuilt.
C33_CleanAfterSyncWitness ==
    /\ task.pc = "idle"
    /\ result.op = "sync_to" /\ result.status = "Ok"
    /\ synced_block = 2
    /\ utxo_trees # EmptyMap
    /\ AllRebuilt(utxo_trees)

(* ------------------------- the matched-events log ------------------------- *)

\* How often an event is in the matched-events log.
TimesMatched(event) ==
    Cardinality({i \in 1..Len(matched_events) : matched_events[i] = event})

\* C34 as stated: no chain event is in the matched-events log more than
\* once, whatever syncs succeeded, failed at verification or were retried.
C34_MatchedEventsAreDistinct ==
    \A i \in 1..Len(chain) : TimesMatched(chain[i]) <= 1

\* What holds: an event is logged at most once more than syncs have failed
\* at verification, and only events of the chain are logged.
C34_MatchedOncePerAttempt ==
    /\ \A i \in 1..Len(chain) : TimesMatched(chain[i]) <= 1 + failures
    /\ \A i \in 1..Len(matched_events) :
           \E j \in 1..Len(chain) : chain[j] = matched_events[i]

\* A sync failed at verification after logging a matched event, the retry
\* returned Ok, and the event is in the log twice.
C34_DuplicateWitness ==
    /\ task.pc = "idle"
    /\ failures = 1
    /\ result.op = "sync_to" /\ result.status = "Ok"
    /\ \E i \in 1..Len(chain) : TimesMatched(chain[i]) = 2

(* --------------------------- TxidIndexer claims --------------------------- *)

\* How often an operation has been enqueued since the last reset.
TimesEnqueued(op) ==
    Cardinality({i \in 1..Len(txix.enqueued) : txix.enqueued[i] = op})

\* C35 as stated: whatever the targets of the sync_to calls, a call does not
\* lower synced_block and no operation is enqueued twice.
C35_SyncedBlockMonotoneNoRefetch ==
    /\ txix.result.status \notin {"None", "SyncerError"}
           => txix.synced_block >= txix.result.synced_before
    /\ \A op \in 1..MaxTxidBlocks : TimesEnqueued(op) <= 1

\* What holds: a call fetches the blocks after synced_block up to its
\* target and sets synced_block to the target capped at the latest block,
\* also when that is below the old synced_block; an operation is enqueued
\* once per call whose range holds it.
C35_SyncedBlockIsLastTarget ==
    /\ txix.result.status \notin {"None", "SyncerError"}
           => /\ txix.synced_block = txix.result.to_block
              /\ txix.result.from_block = txix.result.synced_before + 1
              /\ txix.result.ops =
                     TransactionSyncer_sync(txix.result.from_block,
                                            txix.result.to_block)
    /\ txix.synced_block <= txix.latest
    /\ \A op \in 1..MaxTxidBlocks : TimesEnqueued(op) <= txix.syncs

\* sync_to with a target below synced_block has lowered it.
C35_LoweredWitness ==
    /\ txix.result.status = "Ok"
    /\ txix.result.synced_before = 2
    /\ txix.synced_block = 1

\* After it, a further call has enqueued operation 2 a second time.
C35_RefetchWitness ==
    /\ txix.result.status = "Ok"
    /\ TimesEnqueued(2) = 2
    /\ txix.synced_block = 2

(* ---------------------- Pool-Mix provider claims -------------------------- *)

\* The deposits of the range of the last call that the chain held.
PoolRangeDeposits ==
    DepositsOf(pp.chain, pp.result.from_block, pp.result.to_block)

PoolStoredAt(d) ==
    /\ d.leaf_index + 1 <= leaves_len(pp.tree)
    /\ pp.tree.tree[1][d.leaf_index + 1] = d.commitment

\* C36 (as stated): after sync_to returned Ok, every deposit of the synced
\* block range is stored at its leaf index in the commitment tree, whatever
\* batches failed.
C36_DepositsStoredAtTheirIndex ==
    (pp.result.op = "sync_to" /\ pp.result.status = "Ok"
     /\ pp.result.from_block <= pp.result.to_block)
        => \A i \in 1..Len(PoolRangeDeposits) : PoolStoredAt(PoolRangeDeposits[i])

\* C36 (what holds): when no batch of the call failed and the tree held all
\* earlier deposits, every deposit of the range is stored at its leaf index.
C36_StoredWhenNoBatchFails ==
    (pp.result.op = "sync_to" /\ pp.result.status = "Ok"
     /\ pp.result.from_block <= pp.result.to_block
     /\ pp.result.failed = {} /\ PoolRangeDeposits # <<>>
     /\ leaves_len(pp.tree) >= PoolRangeDeposits[1].leaf_index)
        => \A i \in 1..Len(PoolRangeDeposits) : PoolStoredAt(PoolRangeDeposits[i])

\* A batch between two others failed: the deposit after the gap is stored one
\* position too low.
C36_ShiftedWitness ==
    /\ pp.result.op = "sync_to" /\ pp.result.status = "Ok"
    /\ pp.result.failed = {2} /\ pp.result.from_block = 1
    /\ pp.result.to_block = 3
    /\ \E i \in 1..Len(PoolRangeDeposits) :
           LET d == PoolRangeDeposits[i]
           IN  /\ d.block_number = 3
               /\ ~PoolStoredAt(d)
               /\ pp.tree.tree[1][d.leaf_index] = d.commitment

\* A call without failed batches stored three deposits at their indexes.
C36_StoredWitness ==
    /\ pp.result.op = "sync_to" /\ pp.result.status = "Ok"
    /\ pp.result.failed = {} /\ Len(PoolRangeDeposits) = 3
    /\ \A i \in 1..3 : PoolStoredAt(PoolRangeDeposits[i])

\* C37 (as stated): when the root verification of PoolProvider::sync fails,
\* sync returns an error and synced_block is not beyond both where the call
\* found it and the last block whose tree was verified.
C37_NoProgressForUnverifiedTree ==
    (pp.result.op = "sync" /\ pp.result.status = "InvalidRoot")
        => \/ pp.synced_block <= pp.verified_block
           \/ pp.synced_block = pp.result.synced_before

\* C37 (what holds): sync returns the verifier's error exactly when the root
\* of the tree it built is not one the pool has had, and in either case
\* synced_block is the latest block.
C37_ErrorReturnedAfterAdvance ==
    pp.result.op = "sync"
        => /\ pp.result.status = Indexer_verify(pp.chain, pp.tree)
           /\ pp.synced_block >= pp.result.to_block
           /\ (pp.result.status = "Ok" => pp.verified_block = pp.synced_block)

\* sync failed on the root of a tree with a gap and left synced_block at the
\* latest block, beyond the last verified one.
C37_AdvancedWitness ==
    /\ pp.result.op = "sync" /\ pp.result.status = "InvalidRoot"
    /\ pp.result.failed # {}
    /\ pp.synced_block = Len(pp.chain)
    /\ pp.synced_block > pp.result.synced_before
    /\ pp.synced_block > pp.verified_block

\* After a failed sync, a later sync fetches nothing and fails again.
C37_StuckWitness ==
    /\ pp.result.op = "sync" /\ pp.result.status = "InvalidRoot"
    /\ pp.result.from_block > pp.result.to_block
    /\ pp.result.failed = {}

(* ------------------------ TxidIndexer::reset claims ----------------------- *)

\* The TxIDs of the chain: operation b of block b.
ChainTxids == 1..MaxTxidBlocks

\* C38 (as stated): after TxidIndexer::reset the set has no tree, no pending
\* operation and no position entry: txid_position and utxo_position return
\* none for every TxID.
C38_ResetEmptiesTheSet ==
    txix.result.status = "Reset"
        => /\ txix.txid_set.trees = EmptyMap
           /\ txix.txid_set.pending = <<>>
           /\ \A t \in ChainTxids :
                  /\ txid_position(txix.txid_set, t) = <<>>
                  /\ utxo_position(txix.txid_set, t) = <<>>

\* C38 (what holds): after reset there is no tree, no pending operation and
\* no UTXO position, and the validated index and synced_block are zero.
C38_ResetClearsAllButTxidPositions ==
    txix.result.status = "Reset"
        => /\ txix.txid_set.trees = EmptyMap
           /\ txix.txid_set.pending = <<>>
           /\ txix.txid_set.validated_index = 0
           /\ txix.synced_block = 0
           /\ \A t \in ChainTxids : utxo_position(txix.txid_set, t) = <<>>

\* A TxID inserted before the reset still has its TxID-tree position after
\* it, in a set without trees.
C38_StalePositionWitness ==
    /\ txix.result.status = "Reset"
    /\ txix.txid_set.trees = EmptyMap
    /\ \E t \in ChainTxids :
           /\ txid_position(txix.txid_set, t) # <<>>
           /\ utxo_position(txix.txid_set, t) = <<>>

(* ------------------ PendingPoiSubmitter: repeated process ----------------- *)

IsPendingFated(id) == \E k \in 1..Len(resub.pending) : resub.pending[k].id = id

\* Entry id is pending, its TxID has its positions, and its own proving and
\* submission succeed.
WouldSucceed(id) ==
    /\ IsPendingFated(id)
    /\ resub.known[id] = "both"
    /\ resub.fate[id] \in {"submitted", "null_result"}

\* No entry registered after id fails, now or later.
NothingFailsBehind(id) ==
    /\ resub.registered = MaxFated
    /\ \A other \in FatedIds :
           other > id => resub.fate[other] \in {"submitted", "null_result"}

\* C39 (as stated): every pending entry whose TxID has a position and whose
\* own proving and submission succeed is eventually submitted and removed by
\* repeated process calls, whatever happens to the other entries.
C39_GoodEntriesEventuallySubmitted ==
    \A id \in FatedIds : WouldSucceed(id) ~> (id \in resub.removed)

\* C39 (what holds): such an entry is eventually submitted and removed when
\* no entry registered after it fails.
C39_SubmittedWhenNothingFailsBehind ==
    \A id \in FatedIds :
        (WouldSucceed(id) /\ NothingFailsBehind(id)) ~> (id \in resub.removed)

\* process returned an error for a later entry and left an earlier entry
\* that would succeed in the queue.
C39_BlockedWitness ==
    /\ resub.result.status \notin {"None", "Ok"}
    /\ \E id \in FatedIds :
           /\ WouldSucceed(id)
           /\ \E other \in FatedIds :
                  /\ other > id /\ IsPendingFated(other)
                  /\ resub.known[other] = "both"
                  /\ resub.fate[other] \notin {"submitted", "null_result"}

\* An entry registered after a failing one was submitted all the same.
C39_SubmittedWitness ==
    /\ resub.result.status \notin {"None", "Ok"}
    /\ \E id \in FatedIds :
           /\ id \in resub.removed
           /\ \E other \in FatedIds : other < id /\ IsPendingFated(other)

(* ---------------------- Pool-Mix relayer health claims -------------------- *)

\* C40 (as stated): pick_relayer never returns a relayer that is not marked
\* healthy: one whose last health check failed or that never passed one.
C40_PickedRelayerIsHealthy ==
    hc.picked.status = "Some" => hc.relayers[hc.picked.index].healthy

\* C40 (what holds): pick_relayer returns a relayer of the queried chain that
\* lists the token, healthy or not, and None only when there is none;
\* relayers() lists exactly the healthy ones.
C40_PickedFromChainWhateverHealth ==
    /\ hc.picked.status = "Some"
           => /\ hc.picked.index \in 1..Len(hc.relayers)
              /\ hc.relayers[hc.picked.index].chain_id = hc.picked.chain_id
              /\ hc.picked.token_symbol # <<>>
                     => hc.picked.token_symbol[1]
                            \in hc.relayers[hc.picked.index].eth_prices
    /\ hc.picked.status = "None"
           => \A i \in 1..Len(hc.relayers) :
                  \/ hc.relayers[i].chain_id # hc.picked.chain_id
                  \/ /\ hc.picked.token_symbol # <<>>
                     /\ hc.picked.token_symbol[1] \notin hc.relayers[i].eth_prices
    /\ hc.picked.status # "none"
           => \A i \in 1..Len(hc.relayers) :
                  hc.relayers[i].healthy
                      <=> \E k \in 1..Len(hc.picked.listed) : hc.picked.listed[k] = i

\* pick_relayer returned a relayer whose last health check failed, one that
\* relayers() does not list, while a healthy relayer of the chain was there.
C40_UnhealthyPickedWitness ==
    /\ hc.picked.status = "Some"
    /\ ~hc.relayers[hc.picked.index].healthy
    /\ hc.relayers[hc.picked.index].passed
    /\ \E i \in 1..Len(hc.relayers) :
           /\ hc.relayers[i].healthy
           /\ hc.relayers[i].chain_id = hc.picked.chain_id

\* pick_relayer returned a relayer that never passed a health check.
C40_NeverHealthyPickedWitness ==
    /\ hc.picked.status = "Some"
    /\ ~hc.relayers[hc.picked.index].healthy
    /\ ~hc.relayers[hc.picked.index].passed

====
